---- MODULE Spec2Model ----
(***************************************************************************)
(* A model of the client-facing core of dingo-store:                       *)
(*   - the transaction driver of the benchmark (BaseOperation),           *)
(*   - the leader-aware channel manager (CoordinatorInteraction),          *)
(*   - the vector index cache of the SDK (VectorIndexCache),               *)
(*   - one shard target (RegionEntry) and the benchmark operations that    *)
(*     generate, arrange and read its keys,                                *)
(*   - the transaction flags of the benchmark and their validator,         *)
(*   - the multi-shard transactional writes (KvTxnPut / KvTxnBatchPut over *)
(*     a list of region entries),                                          *)
(*   - the raw key-value store behind Storage.                             *)
(* Each component has its own next-state relation and specification; the   *)
(* variables of the other components stay at their initial values.         *)
(***************************************************************************)
EXTENDS Integers, Sequences, FiniteSets, TLC

(***************************************************************************)
(* Bounds of the model                                                      *)
(***************************************************************************)
\* longest input list (kvs, keys, key groups) handed to a driver call
MaxLen == 2
\* number of distinct list elements an input list is built from
NumItems == 2
\* longest endpoint list an address resolves to
MaxEndpoints == 3
\* number of Init / InitByNameService calls made on one instance
MaxInitCalls == 2
\* number of threads that share one CoordinatorInteraction or one VectorIndexCache
NumThreads == 2
\* number of index cache keys (logical names) and of index ids
NumKeys == 1
NumIds == 2
\* longest shard prefix and largest FLAGS_key_size
MaxPrefixLen == 1
MaxKeySize == 3
\* largest FLAGS_batch_size and largest FLAGS_arrange_kv_num
MaxBatchSize == 2
MaxArrange == 3
\* the chunk of Arrange (batch_size = 256 in the code), scaled down
ArrangeBatchSize == 2
\* number of fill calls and of sequential reads made on one shard
MaxFillCalls == 2
MaxReads == 3
\* longest string given for --txn_isolation_level
MaxFlagLen == 2
\* number of keys of the raw store
NumStoreKeys == 2
\* number of shard targets a multi-shard write may name, and of such writes
NumShards == 2
MaxMultiCalls == 2

(***************************************************************************)
(* Transaction driver: state                                                *)
(***************************************************************************)
VARIABLES
  op,             \* the driver function running, "none" between calls
  kvs,            \* its input list (kvs / keys / groups of keys)
  pc,             \* position in the function body
  idx,            \* number of list elements the range-for has consumed
  txn,            \* sdk::Transaction* txn: "nullptr", "live" or "deleted"
  result_status,  \* result.status
  calls,          \* every remote step issued by the call, in order
  opened,         \* handles created by NewTransaction during the call
  released        \* handles destroyed by `delete txn` during the call

txnVars == <<op, kvs, pc, idx, txn, result_status, calls, opened, released>>

(***************************************************************************)
(* The transaction flags of the benchmark: state                            *)
(***************************************************************************)
VARIABLES
  flag_pc,              \* "default": the command line is not parsed yet;
                        \* "parsed"; "rejected": a validator refused it
  isolation_arg,        \* the string the command line gives --txn_isolation_level
  txn_isolation_level,  \* FLAGS_txn_isolation_level
  is_pessimistic_txn    \* FLAGS_is_pessimistic_txn

flagVars == <<flag_pc, isolation_arg, txn_isolation_level, is_pessimistic_txn>>

(***************************************************************************)
(* Leader-aware channel manager (CoordinatorInteraction): state             *)
(***************************************************************************)
VARIABLES
  endpoints_,         \* std::vector<butil::EndPoint>
  channels_,          \* the channels, each named by the endpoint it is bound to
  use_service_name_,  \* set once InitByNameService succeeded
  leader_index_,      \* std::atomic<int>
  leader_addr_,       \* the address set by SetLeaderAddress, 0 when unset
  init_fn,            \* the latest initialisation called: "Init", "InitByNameService"
  init_ret,           \* what it returned: "true" or "false" ("none" before any)
  init_calls,         \* number of Init / InitByNameService calls so far
  tpc,                \* per thread: "idle", "observed" (GetLeader returned), "done"
  observed,           \* per thread: the index its GetLeader returned
  div_by_zero,        \* a NextLeader has computed a remainder by zero
  crashed,            \* the process was killed by the division trap
  last_next           \* the latest NextLeader: its argument, the pointer before and after

coordVars == <<endpoints_, channels_, use_service_name_, leader_index_, leader_addr_,
               init_fn, init_ret, init_calls, tpc, observed, div_by_zero, crashed, last_next>>

(***************************************************************************)
(* Vector index cache (VectorIndexCache): state                            *)
(***************************************************************************)
VARIABLES
  index_key_to_id_,  \* unordered_map<VectorIndexCacheKey, int64_t>; 0: no entry
  id_to_index_,      \* unordered_map<int64_t, shared_ptr<VectorIndex>>; NoIndex: no entry
  rw_writer,         \* the thread holding rw_lock_ exclusively, 0 when none
  cpc,               \* per thread: "idle", "lookup", "insert", "insert_index"
  cfn,               \* per thread: the cache function it is in
  carg,              \* per thread: the key or id it was called with
  cresp,             \* per thread: the index definition its remote lookup returned
  last_ret,          \* the Get call that returned last and what it returned
  got,               \* per key: the id the latest successful GetVectorIndexByKey
                     \* returned, 0 once a removal followed it
  refilled,          \* per key: a later lookup result was inserted for the key
  inval,             \* per key: how far the key is since its latest removal
  last_fill,         \* the index definition inserted last, NoIndex once a removal
                     \* took its key or its id out of the maps
  raced              \* last_fill replaced what a concurrent miss on its key inserted

cacheVars == <<index_key_to_id_, id_to_index_, rw_writer, cpc, cfn, carg, cresp,
               last_ret, got, refilled, inval, last_fill, raced>>

(***************************************************************************)
(* Shard target (RegionEntry) and the benchmark operations on it: state     *)
(***************************************************************************)
VARIABLES
  benchmark,       \* FLAGS_benchmark
  key_size,        \* FLAGS_key_size
  batch_size,      \* FLAGS_batch_size
  arrange_kv_num,  \* FLAGS_arrange_kv_num
  prefix,          \* region_entry->prefix
  counter,         \* region_entry->counter
  keys,            \* region_entry->keys
  read_index,      \* region_entry->read_index
  wpc,             \* per thread, in a fill call: "idle", "gen", "counted"
  wleft,           \* per thread: keys the fill call still has to generate
  wcount,          \* per thread: the count its fetch_add returned
  fills,           \* number of fill calls started
  generated,       \* the keys the sequential fill calls have built, with their counts
  last_key,        \* the key a fill call built last, <<>> before the first
  apc,             \* Arrange: "none", "loop", "true", "false"
  ai,              \* Arrange: the loop variable i
  akvs,            \* Arrange: the local batch kvs (the keys of it)
  awritten,        \* Arrange: the keys of the batches written successfully
  awrites,         \* Arrange: the size and the status of each batch write issued
  rpc,             \* per thread, in a read call: "idle", "batch"
  rleft,           \* per thread: keys the batched read still has to pick
  reads,           \* every key a sequential read picked, in order
  shard_crashed,   \* the process was killed by a trap in a read
  path             \* the path the latest Execute took: fill or read, single or batched

shardVars == <<benchmark, key_size, batch_size, arrange_kv_num, prefix, counter, keys, read_index,
               wpc, wleft, wcount, fills, generated, last_key,
               apc, ai, akvs, awritten, awrites, rpc, rleft, reads, shard_crashed, path>>

(***************************************************************************)
(* Raw key-value store (Storage over its Engine): state                     *)
(***************************************************************************)
VARIABLES
  engine_,     \* the data of the Engine behind Storage: per key its value or NoValue
  last_write,  \* the raw write that returned last, if it succeeded
  store_ret    \* the raw call that returned last and what it returned

storeVars == <<engine_, last_write, store_ret>>

(***************************************************************************)
(* Multi-shard transactional writes: state                                  *)
(***************************************************************************)
VARIABLES
  region_counter,  \* per shard target: region_entry->counter
  m_pc,            \* "idle", "gen" (the pairs are generated), "delegated"
  m_fn,            \* the multi-shard function running: KvTxnPut or KvTxnBatchPut
  m_entries,       \* region_entries
  m_r,             \* number of region entries the outer range-for has consumed
  m_i,             \* pairs generated for the current region entry
  m_kvs,           \* the local kvs
  m_start,         \* the counters when the function was entered
  m_calls          \* number of multi-shard writes started

multiVars == <<region_counter, m_pc, m_fn, m_entries, m_r, m_i, m_kvs, m_start, m_calls>>

\* what the steps of one component leave alone: the other components
TxnFrame == UNCHANGED <<flagVars, coordVars, cacheVars, shardVars, storeVars, multiVars>>
FlagFrame == UNCHANGED <<txnVars, coordVars, cacheVars, shardVars, storeVars, multiVars>>
CoordFrame == UNCHANGED <<txnVars, flagVars, cacheVars, shardVars, storeVars, multiVars>>
CacheFrame == UNCHANGED <<txnVars, flagVars, coordVars, shardVars, storeVars, multiVars>>
ShardFrame == UNCHANGED <<txnVars, flagVars, coordVars, cacheVars, storeVars, multiVars>>
StoreFrame == UNCHANGED <<txnVars, flagVars, coordVars, cacheVars, shardVars, multiVars>>
MultiFrame == UNCHANGED <<txnVars, flagVars, coordVars, cacheVars, shardVars, storeVars>>

(***************************************************************************)
(* Transaction driver                                                       *)
(***************************************************************************)

\* The statuses a remote step may return; sdk::Status default-constructs to OK.
Statuses == {"OK", "NotLeader", "Conflict"}

Items == 1..NumItems

\* all lists over Items of length at most n
RECURSIVE ListsUpTo(_)
ListsUpTo(n) ==
  IF n = 0 THEN {<<>>}
  ELSE LET shorter == ListsUpTo(n - 1)
       IN  shorter \cup {Append(s, x) : s \in {t \in shorter : Len(t) = n - 1}, x \in Items}

Inputs == ListsUpTo(MaxLen)

\* one remote step as the transaction service sees it
Call(fn, arg, st, h) == [fn |-> fn, arg |-> arg, st |-> st, handle |-> h]

TxnInit ==
  /\ op = "none"
  /\ kvs = <<>>
  /\ pc = "idle"
  /\ idx = 0
  /\ txn = "nullptr"
  /\ result_status = "OK"
  /\ calls = <<>>
  /\ opened = 0
  /\ released = 0

(***************************************************************************)
(* The transaction flags                                                    *)
(***************************************************************************)
\* the characters a --txn_isolation_level string is made of
FlagChars == {"S", "s", "I", "i", "R", "r", "C", "c", "x"}

FlagStrings == UNION {[1..n -> FlagChars] : n \in 0..MaxFlagLen}

\* the upper-case form of one character
UpperChar(c) ==
  CASE c = "s" -> "S"
    [] c = "i" -> "I"
    [] c = "r" -> "R"
    [] c = "c" -> "C"
    [] c = "x" -> "X"
    [] OTHER -> c

\* Helper::ToUpper: every character of the string in upper case
ToUpper(str) == [i \in 1..Len(str) |-> UpperChar(str[i])]

\* faulty variant of IsolationValidator: the value is compared as it is given
IsolationValidatorCaseSensitive(value) ==
  value = <<"S", "I">> \/ value = <<"R", "C">>

\* DEFINE_validator(txn_isolation_level, ...)
IsolationValidator(value) ==
  LET isolation_level == ToUpper(value)
  IN  isolation_level = <<"S", "I">> \/ isolation_level = <<"R", "C">>

\* faulty variant of GetTxnIsolationLevel: the flag is compared as it is given
GetTxnIsolationLevelCaseSensitive ==
  IF txn_isolation_level = <<"S", "I">> THEN "kSnapshotIsolation"
  ELSE IF txn_isolation_level = <<"R", "C">> THEN "kReadCommitted"
  ELSE "FATAL"

\* GetTxnIsolationLevel(); "FATAL" stands for the LOG(FATAL) of the last branch
GetTxnIsolationLevel ==
  LET isolation_level == ToUpper(txn_isolation_level)
  IN  IF isolation_level = <<"S", "I">> THEN "kSnapshotIsolation"
      ELSE IF isolation_level = <<"R", "C">> THEN "kReadCommitted"
      ELSE "FATAL"

\* sdk::TransactionOptions options, as each driver function fills it
TransactionOptions ==
  [kind |-> IF is_pessimistic_txn THEN "kPessimistic" ELSE "kOptimistic",
   isolation |-> GetTxnIsolationLevel]

\* the flags as DEFINE_bool / DEFINE_string define them
FlagInit ==
  /\ flag_pc = "default"
  /\ isolation_arg = <<"S", "I">>
  /\ txn_isolation_level = <<"S", "I">>
  /\ is_pessimistic_txn = FALSE

\* main parses the command line before any operation runs: the validator
\* sees the value given for --txn_isolation_level; a refused value ends the
\* process and leaves the flags as they were
ParseTxnFlags(pess, value) ==
  /\ flag_pc = "default"
  /\ isolation_arg' = value
  /\ IF IsolationValidator(value)
       THEN /\ txn_isolation_level' = value
            /\ is_pessimistic_txn' = pess
            /\ flag_pc' = "parsed"
       ELSE /\ flag_pc' = "rejected"
            /\ UNCHANGED <<txn_isolation_level, is_pessimistic_txn>>
  /\ FlagFrame

(***************************************************************************)
(* Transaction driver: the steps of the four functions                      *)
(***************************************************************************)
\* A caller enters driver function f with input list in: the locals are
\* constructed (Operation::Result result; sdk::Transaction* txn = nullptr).
EnterLocals(f, in) ==
  /\ op' = f
  /\ kvs' = in
  /\ pc' = "NewTransaction"
  /\ idx' = 0
  /\ txn' = "nullptr"
  /\ result_status' = "OK"
  /\ calls' = <<>>
  /\ opened' = 0
  /\ released' = 0

\* the call comes from outside the driver, after the command line is parsed
Enter(f, in) ==
  /\ flag_pc = "parsed"
  /\ pc = "idle"
  /\ EnterLocals(f, in)
  /\ TxnFrame

\* faulty variant of AfterOpen: the status check after NewTransaction is missing
AfterOpenUnchecked(f, st) == IF f = "KvTxnBatchPut" THEN "BatchPut" ELSE "loop"

\* where the body continues after the status st of NewTransaction:
\* if (!result.status.IsOK()) goto end; otherwise the reads/writes of f
AfterOpen(f, st) ==
  IF st # "OK" THEN "end"
  ELSE IF f = "KvTxnBatchPut" THEN "BatchPut" ELSE "loop"

\* options.kind = ...; options.isolation = GetTxnIsolationLevel();
\* result.status = client->NewTransaction(options, &txn);
\* if (!result.status.IsOK()) goto end;
\* A failed open leaves txn at nullptr; the LOG(FATAL) of GetTxnIsolationLevel
\* ends the process before the transaction service is called.
NewTransaction(f) ==
  /\ op = f
  /\ pc = "NewTransaction"
  /\ IF GetTxnIsolationLevel = "FATAL"
       THEN /\ pc' = "aborted"
            /\ UNCHANGED <<result_status, calls, txn, opened>>
       ELSE \E st \in Statuses :
              /\ result_status' = st
              /\ calls' = Append(calls, Call("NewTransaction", <<TransactionOptions>>, st, txn))
              /\ pc' = AfterOpen(f, st)
              /\ IF st = "OK"
                   THEN /\ txn' = "live"
                        /\ opened' = opened + 1
                   ELSE UNCHANGED <<txn, opened>>
  /\ UNCHANGED <<op, kvs, idx, released>>
  /\ TxnFrame

\* faulty variant of LoopFn: every function writes its elements
LoopFnPut(f) == "Put"

\* the transaction method the range-for of f calls on each element
LoopFn(f) ==
  CASE f = "KvTxnPut" -> "Put"
    [] f = "KvTxnGet" -> "Get"
    [] f = "KvTxnBatchGet" -> "BatchGet"

\* faulty variant of LoopExit: the loop body does not leave on a failed step
LoopExitNoGoto(st) == "loop"

\* where a range-for iteration goes after the status st of its remote step:
\* if (!result.status.IsOK()) goto end;
LoopExit(st) == IF st = "OK" THEN "loop" ELSE "end"

\* for (const auto& e : list) { result.status = txn->Fn(e); if (!IsOK()) goto end; }
\* One iteration, or the exit of the loop when the list is exhausted.
Loop(f) ==
  /\ op = f
  /\ pc = "loop"
  /\ \/ /\ idx < Len(kvs)
        /\ \E st \in Statuses :
             /\ result_status' = st
             /\ calls' = Append(calls, Call(LoopFn(f), <<kvs[idx + 1]>>, st, txn))
             /\ pc' = LoopExit(st)
        /\ idx' = idx + 1
     \/ /\ idx >= Len(kvs)
        /\ pc' = "PreCommit"
        /\ UNCHANGED <<result_status, calls, idx>>
  /\ UNCHANGED <<op, kvs, txn, opened, released>>
  /\ TxnFrame

\* where the body continues after the status st of BatchPut
AfterBatchPut(st) == IF st = "OK" THEN "PreCommit" ELSE "end"

\* result.status = txn->BatchPut(kvs); if (!result.status.IsOK()) goto end;
BatchPut(f) ==
  /\ op = f
  /\ pc = "BatchPut"
  /\ \E st \in Statuses :
       /\ result_status' = st
       /\ calls' = Append(calls, Call("BatchPut", kvs, st, txn))
       /\ pc' = AfterBatchPut(st)
  /\ idx' = Len(kvs)
  /\ UNCHANGED <<op, kvs, txn, opened, released>>
  /\ TxnFrame

\* faulty variant of AfterPreCommit: Commit is issued whatever PreCommit returned
AfterPreCommitUnchecked(st) == "Commit"

\* faulty variant of AfterPreCommit: a failed PreCommit is tried again
AfterPreCommitRetry(st) == IF st = "OK" THEN "Commit" ELSE "PreCommit"

\* where the body continues after the status st of PreCommit
AfterPreCommit(st) == IF st = "OK" THEN "Commit" ELSE "end"

\* result.status = txn->PreCommit(); if (!result.status.IsOK()) goto end;
PreCommit(f) ==
  /\ op = f
  /\ pc = "PreCommit"
  /\ \E st \in Statuses :
       /\ result_status' = st
       /\ calls' = Append(calls, Call("PreCommit", <<>>, st, txn))
       /\ pc' = AfterPreCommit(st)
  /\ UNCHANGED <<op, kvs, idx, txn, opened, released>>
  /\ TxnFrame

\* result.status = txn->Commit();   (falls through to end)
Commit(f) ==
  /\ op = f
  /\ pc = "Commit"
  /\ \E st \in Statuses :
       /\ result_status' = st
       /\ calls' = Append(calls, Call("Commit", <<>>, st, txn))
  /\ pc' = "end"
  /\ UNCHANGED <<op, kvs, idx, txn, opened, released>>
  /\ TxnFrame

\* the handle after `delete txn`: deleting nullptr does nothing
DeleteTxn(h) == IF h = "nullptr" THEN "nullptr" ELSE "deleted"

\* faulty variant of Destroyed: the end label returns without `delete txn`
DestroyedNever(h) == 0

\* the number of handles `delete txn` destroys
Destroyed(h) == IF h = "nullptr" THEN 0 ELSE 1

\* end: result.eplased_time = ...; delete txn; return result;
End(f) ==
  /\ op = f
  /\ pc = "end"
  /\ txn' = DeleteTxn(txn)
  /\ released' = released + Destroyed(txn)
  /\ pc' = "done"
  /\ UNCHANGED <<op, kvs, idx, result_status, calls, opened>>
  /\ TxnFrame

\* return result; the caller has taken the Result and the frame is gone
Return ==
  /\ pc = "done"
  /\ op' = "none"
  /\ kvs' = <<>>
  /\ pc' = "idle"
  /\ idx' = 0
  /\ txn' = "nullptr"
  /\ result_status' = "OK"
  /\ calls' = <<>>
  /\ opened' = 0
  /\ released' = 0
  /\ TxnFrame

KvTxnPut ==
  \/ \E in \in Inputs : Enter("KvTxnPut", in)
  \/ NewTransaction("KvTxnPut")
  \/ Loop("KvTxnPut")
  \/ PreCommit("KvTxnPut")
  \/ Commit("KvTxnPut")
  \/ End("KvTxnPut")

KvTxnBatchPut ==
  \/ \E in \in Inputs : Enter("KvTxnBatchPut", in)
  \/ NewTransaction("KvTxnBatchPut")
  \/ BatchPut("KvTxnBatchPut")
  \/ PreCommit("KvTxnBatchPut")
  \/ Commit("KvTxnBatchPut")
  \/ End("KvTxnBatchPut")

KvTxnGet ==
  \/ \E in \in Inputs : Enter("KvTxnGet", in)
  \/ NewTransaction("KvTxnGet")
  \/ Loop("KvTxnGet")
  \/ PreCommit("KvTxnGet")
  \/ Commit("KvTxnGet")
  \/ End("KvTxnGet")

KvTxnBatchGet ==
  \/ \E in \in Inputs : Enter("KvTxnBatchGet", in)
  \/ NewTransaction("KvTxnBatchGet")
  \/ Loop("KvTxnBatchGet")
  \/ PreCommit("KvTxnBatchGet")
  \/ Commit("KvTxnBatchGet")
  \/ End("KvTxnBatchGet")

(***************************************************************************)
(* Leader-aware channel manager (CoordinatorInteraction)                    *)
(***************************************************************************)
Threads == 1..NumThreads

\* The endpoint lists Helper::StrToEndpoints yields: the i-th address of the
\* string is endpoint i; an unparsable string yields the empty list.
EndpointLists == {[k \in 1..n |-> k] : n \in 0..MaxEndpoints}

Endpoints == 1..MaxEndpoints

\* a call NextLeader(arg) that found the leader pointer at before and left it
\* at after
NextLeaderCall(arg, before, after) == [arg |-> arg, before |-> before, after |-> after]

\* no NextLeader has been called yet
NoNextLeader == NextLeaderCall(-1, 0, 0)

\* a freshly constructed CoordinatorInteraction
CoordInit ==
  /\ endpoints_ = <<>>
  /\ channels_ = <<>>
  /\ use_service_name_ = FALSE
  /\ leader_index_ = 0
  /\ leader_addr_ = 0
  /\ init_fn = "none"
  /\ init_ret = "none"
  /\ init_calls = 0
  /\ tpc = [t \in Threads |-> "idle"]
  /\ observed = [t \in Threads |-> 0]
  /\ div_by_zero = FALSE
  /\ crashed = FALSE
  /\ last_next = NoNextLeader

\* initialisation is done by one thread while no other thread uses the instance
Quiescent == \A t \in Threads : tpc[t] = "idle"

(***************************************************************************)
(* CoordinatorInteraction: operations                                       *)
(***************************************************************************)
\* the channels pushed by the for loop of Init over eps when the channel of
\* position failAt fails to initialise (0: none fails)
PushedChannels(eps, failAt) ==
  IF failAt = 0 THEN eps ELSE SubSeq(eps, 1, failAt - 1)

\* bool Init(addr, service_type): eps is StrToEndpoints(addr), failAt the first
\* position whose channel->Init(endpoint, nullptr) != 0
CoordinatorInit(eps, failAt) ==
  /\ ~crashed
  /\ Quiescent
  /\ init_calls < MaxInitCalls
  /\ init_calls' = init_calls + 1
  /\ init_fn' = "Init"
  /\ endpoints_' = eps
  /\ IF eps = <<>>
       THEN /\ init_ret' = "false"
            /\ UNCHANGED channels_
       ELSE /\ channels_' = channels_ \o PushedChannels(eps, failAt)
            /\ init_ret' = IF failAt = 0 THEN "true" ELSE "false"
  /\ UNCHANGED <<use_service_name_, leader_index_, leader_addr_, tpc, observed,
                 div_by_zero, crashed, last_next>>
  /\ CoordFrame

\* bool InitByNameService(service_name, service_type): ok says whether
\* name_service_channel_.Init(...) returned 0
InitByNameService(ok) ==
  /\ ~crashed
  /\ Quiescent
  /\ init_calls < MaxInitCalls
  /\ init_calls' = init_calls + 1
  /\ init_fn' = "InitByNameService"
  /\ IF ok
       THEN /\ use_service_name_' = TRUE
            /\ init_ret' = "true"
       ELSE /\ init_ret' = "false"
            /\ UNCHANGED use_service_name_
  /\ UNCHANGED <<endpoints_, channels_, leader_index_, leader_addr_, tpc, observed,
                 div_by_zero, crashed, last_next>>
  /\ CoordFrame

\* int GetLeader() { return leader_index_.load(); }
GetLeader(t) ==
  /\ ~crashed
  /\ init_ret = "true"
  /\ tpc[t] = "idle"
  /\ observed' = [observed EXCEPT ![t] = leader_index_]
  /\ tpc' = [tpc EXCEPT ![t] = "observed"]
  /\ UNCHANGED <<endpoints_, channels_, use_service_name_, leader_index_, leader_addr_,
                 init_fn, init_ret, init_calls, div_by_zero, crashed, last_next>>
  /\ CoordFrame

\* (leader_index + 1) % endpoints_.size() for a non-empty endpoint list
NextLeaderIndex(leader_index, size) == (leader_index + 1) % size

\* faulty variant of CompareExchangeWeak: a plain store of desired
CompareExchangeStore(cur, expected, desired) == {desired}

\* The values leader_index_ may hold after
\* leader_index_.compare_exchange_weak(expected, desired) when it held cur:
\* the weak form may fail although cur = expected.
CompareExchangeWeak(cur, expected, desired) ==
  IF cur = expected THEN {desired, cur} ELSE {cur}

\* void NextLeader(int leader_index), called by thread t with the index its
\* GetLeader returned.  With an empty endpoint list the remainder is taken by
\* zero: the process traps, or (where the division yields 0) the remainder is
\* the dividend itself.
NextLeader(t) ==
  /\ ~crashed
  /\ tpc[t] = "observed"
  /\ tpc' = [tpc EXCEPT ![t] = "done"]
  /\ IF Len(endpoints_) = 0
       THEN /\ div_by_zero' = TRUE
            /\ \/ /\ crashed' = TRUE
                  /\ UNCHANGED leader_index_
               \/ /\ observed[t] + 1 < MaxEndpoints
                  /\ leader_index_' \in
                       CompareExchangeWeak(leader_index_, observed[t], observed[t] + 1)
                  /\ UNCHANGED crashed
       ELSE /\ leader_index_' \in
                 CompareExchangeWeak(leader_index_, observed[t],
                                     NextLeaderIndex(observed[t], Len(endpoints_)))
            /\ UNCHANGED <<div_by_zero, crashed>>
  /\ last_next' = NextLeaderCall(observed[t], leader_index_, leader_index_')
  /\ UNCHANGED <<endpoints_, channels_, use_service_name_, leader_addr_, init_fn,
                 init_ret, init_calls, observed>>
  /\ CoordFrame

\* void SetLeaderAddress(addr): { BAIDU_SCOPED_LOCK(leader_mutex_); leader_addr_ = addr; }
SetLeaderAddress(addr) ==
  /\ ~crashed
  /\ init_ret = "true"
  /\ leader_addr_' = addr
  /\ UNCHANGED <<endpoints_, channels_, use_service_name_, leader_index_, init_fn,
                 init_ret, init_calls, tpc, observed, div_by_zero, crashed, last_next>>
  /\ CoordFrame

\* thread t has finished its retry round and is ready for the next request
ThreadReturn(t) ==
  /\ ~crashed
  /\ tpc[t] = "done"
  /\ tpc' = [tpc EXCEPT ![t] = "idle"]
  /\ observed' = [observed EXCEPT ![t] = 0]
  /\ UNCHANGED <<endpoints_, channels_, use_service_name_, leader_index_, leader_addr_,
                 init_fn, init_ret, init_calls, div_by_zero, crashed, last_next>>
  /\ CoordFrame

CoordNext ==
  \/ \E eps \in EndpointLists : \E failAt \in 0..Len(eps) : CoordinatorInit(eps, failAt)
  \/ \E ok \in BOOLEAN : InitByNameService(ok)
  \/ \E t \in Threads : GetLeader(t)
  \/ \E t \in Threads : NextLeader(t)
  \/ \E addr \in Endpoints : SetLeaderAddress(addr)
  \/ \E t \in Threads : ThreadReturn(t)

(***************************************************************************)
(* Vector index cache (VectorIndexCache)                                    *)
(***************************************************************************)
Keys == 1..NumKeys
Ids == 1..NumIds

\* the absent shared_ptr<VectorIndex>
NoIndex == [id |-> 0, key |-> 0]

\* a VectorIndex built from an index definition: its id and its name
VectorIndex(id, key) == [id |-> id, key |-> key]

GetFns == {"GetIndexIdByKey", "GetVectorIndexByKey", "GetVectorIndexById"}

\* the arguments function fn takes
Args(fn) == IF fn = "GetVectorIndexById" THEN Ids ELSE Keys

\* What the metadata service may answer to the lookup of function fn for arg:
\* an error status, a response without index_definition_with_id, a definition
\* without an id, or the definition of the asked key (under any id) or of the
\* asked id (under any key).
Responses(fn, arg) ==
  {[status |-> st, has_index_definition_with_id |-> FALSE, has_id |-> FALSE,
    id |-> 0, key |-> 0] : st \in {"NotFound", "TransportError", "OK"}}
  \cup
  {[status |-> "OK", has_index_definition_with_id |-> TRUE, has_id |-> FALSE,
    id |-> 0, key |-> 0]}
  \cup
  IF fn = "GetVectorIndexById"
    THEN {[status |-> "OK", has_index_definition_with_id |-> TRUE, has_id |-> TRUE,
           id |-> arg, key |-> k] : k \in Keys}
    ELSE {[status |-> "OK", has_index_definition_with_id |-> TRUE, has_id |-> TRUE,
           id |-> i, key |-> arg] : i \in Ids}

\* static bool CheckIndexDefinitionWithId(index_def_with_id): the definition
\* carries an id
CheckIndexDefinitionWithId(response) == response.has_id

\* faulty variant of CheckIndexResponse: the definition is not checked for an id
CheckIndexResponseNoIdCheck(response) == response.has_index_definition_with_id

\* template <class VectorIndexResponse> bool CheckIndexResponse(response)
CheckIndexResponse(response) ==
  IF ~response.has_index_definition_with_id
    THEN FALSE
    ELSE CheckIndexDefinitionWithId(response)

\* the status a slow lookup hands to its caller for a response it rejects
LookupError(response) ==
  IF response.status # "OK" THEN response.status ELSE "InvalidResponse"

\* a returned Get call: the function and its argument, the Status and the
\* index id (0 with an error) handed to the caller, and the number of remote
\* lookups the call made
Ret(fn, arg, st, id, lookups) ==
  [fn |-> fn, arg |-> arg, st |-> st, id |-> id, lookups |-> lookups]

\* Where a key stands since its latest RemoveVectorIndexByKey: "none" (no
\* removal to account for), "removed" (no GetIndexIdByKey of the key was called
\* since), "pending" (the first such call, by thread t, is in its slow path),
\* "looked_up" (that call returned the id it looked up).
Inval(st, t) == [st |-> st, t |-> t]

\* inval once thread t has entered GetIndexIdByKey(key) and hit or missed
InvalAfterFastPath(t, fn, key, hit) ==
  IF fn = "GetIndexIdByKey" /\ inval[key].st = "removed"
    THEN [inval EXCEPT ![key] = IF hit THEN Inval("none", 0) ELSE Inval("pending", t)]
    ELSE inval

\* inval once the slow path of thread t has ended, with st the outcome
InvalAfterSlowPath(t, st) ==
  [k \in Keys |-> IF inval[k] = Inval("pending", t) /\ cfn[t] = "GetIndexIdByKey"
                         /\ carg[t] = k
                    THEN Inval(st, 0)
                    ELSE inval[k]]

\* index_key_to_id_.erase(key)
EraseKey(m, key) == [m EXCEPT ![key] = 0]

\* faulty variant of EraseId: clear() in place of erase(id)
EraseIdClearsAll(m, id) == [i \in DOMAIN m |-> NoIndex]

\* id_to_index_.erase(id)
EraseId(m, id) == [m EXCEPT ![id] = NoIndex]

\* faulty variant of CanLockShared: the reader does not wait for the writer
CanLockSharedAnyTime == TRUE

\* a reader can take rw_lock_ shared: no thread holds it exclusively
CanLockShared == rw_writer = 0

\* faulty variant of LockAfterMiss: the slow path is entered with rw_lock_
\* taken by the thread
LockKeptAfterMiss(t) == t

\* the holder of rw_lock_ once thread t has missed and left the fast path:
\* the shared lock is released before the remote lookup
LockAfterMiss(t) == 0

\* faulty variant of KeyToIdAfterInsert: an entry of the key is left as it is
KeyToIdAfterEmplace(m, key, id) == IF m[key] # 0 THEN m ELSE [m EXCEPT ![key] = id]

\* index_key_to_id_ after the slow path stored key -> id: the last write wins
KeyToIdAfterInsert(m, key, id) == [m EXCEPT ![key] = id]

\* a freshly constructed VectorIndexCache
CacheInit ==
  /\ index_key_to_id_ = [k \in Keys |-> 0]
  /\ id_to_index_ = [i \in Ids |-> NoIndex]
  /\ rw_writer = 0
  /\ cpc = [t \in Threads |-> "idle"]
  /\ cfn = [t \in Threads |-> "none"]
  /\ carg = [t \in Threads |-> 0]
  /\ cresp = [t \in Threads |-> NoIndex]
  /\ last_ret = Ret("none", 0, "OK", 0, 0)
  /\ got = [k \in Keys |-> 0]
  /\ refilled = [k \in Keys |-> FALSE]
  /\ inval = [k \in Keys |-> Inval("none", 0)]
  /\ last_fill = NoIndex
  /\ raced = FALSE

\* faulty variant of FastPathHit: GetIndexIdByKey never looks into the map
FastPathHitNoIdLookup(fn, arg) ==
  CASE fn = "GetIndexIdByKey" -> FALSE
    [] fn = "GetVectorIndexByKey" ->
         /\ index_key_to_id_[arg] # 0
         /\ id_to_index_[index_key_to_id_[arg]] # NoIndex
    [] fn = "GetVectorIndexById" -> id_to_index_[arg] # NoIndex

\* faulty variant of FastPathHit: GetIndexIdByKey is answered from an index
\* of that key left in id_to_index_
FastPathHitByCachedIndex(fn, arg) ==
  CASE fn = "GetIndexIdByKey" ->
         \/ index_key_to_id_[arg] # 0
         \/ \E i \in Ids : id_to_index_[i] = VectorIndex(i, arg)
    [] fn = "GetVectorIndexByKey" ->
         /\ index_key_to_id_[arg] # 0
         /\ id_to_index_[index_key_to_id_[arg]] # NoIndex
    [] fn = "GetVectorIndexById" -> id_to_index_[arg] # NoIndex

\* whether the fast path of fn finds arg in the maps
FastPathHit(fn, arg) ==
  CASE fn = "GetIndexIdByKey" -> index_key_to_id_[arg] # 0
    [] fn = "GetVectorIndexByKey" ->
         /\ index_key_to_id_[arg] # 0
         /\ id_to_index_[index_key_to_id_[arg]] # NoIndex
    [] fn = "GetVectorIndexById" -> id_to_index_[arg] # NoIndex

\* the id the fast path of fn returns for arg
FastPathId(fn, arg) ==
  IF fn = "GetVectorIndexById" THEN arg ELSE index_key_to_id_[arg]

\* got after a GetVectorIndexByKey(key) returned id successfully
GotAfterReturn(fn, key, id) ==
  IF fn = "GetVectorIndexByKey" THEN [got EXCEPT ![key] = id] ELSE got

\* refilled after a call of fn returned: a GetVectorIndexByKey(key) opens a
\* new observation of key
RefilledAfterReturn(fn, key) ==
  IF fn = "GetVectorIndexByKey" THEN [refilled EXCEPT ![key] = FALSE] ELSE refilled

\* Thread t calls fn(arg): the fast path under the shared lock.  A hit returns
\* at once; a miss leaves the lock and goes on to the slow remote lookup.
FastPath(t, fn, arg) ==
  /\ cpc[t] = "idle"
  /\ CanLockShared
  /\ IF FastPathHit(fn, arg)
       THEN /\ last_ret' = Ret(fn, arg, "OK", FastPathId(fn, arg), 0)
            /\ got' = GotAfterReturn(fn, arg, FastPathId(fn, arg))
            /\ refilled' = RefilledAfterReturn(fn, arg)
            /\ UNCHANGED <<cpc, cfn, carg, rw_writer>>
       ELSE /\ cpc' = [cpc EXCEPT ![t] = "lookup"]
            /\ cfn' = [cfn EXCEPT ![t] = fn]
            /\ carg' = [carg EXCEPT ![t] = arg]
            /\ rw_writer' = LockAfterMiss(t)
            /\ UNCHANGED <<last_ret, got, refilled>>
  /\ inval' = InvalAfterFastPath(t, fn, arg, FastPathHit(fn, arg))
  /\ UNCHANGED <<index_key_to_id_, id_to_index_, cresp, last_fill, raced>>
  /\ CacheFrame

\* SlowGetVectorIndexByKey / SlowGetVectorIndexById: the remote lookup, made
\* while holding no lock, and the check of its response.  A failed or malformed
\* response ends the call with an error and caches nothing.
SlowGet(t) ==
  /\ cpc[t] = "lookup"
  /\ \E response \in Responses(cfn[t], carg[t]) :
       IF response.status = "OK" /\ CheckIndexResponse(response)
         THEN /\ cpc' = [cpc EXCEPT ![t] = "insert"]
              /\ cresp' = [cresp EXCEPT ![t] = VectorIndex(response.id, response.key)]
              /\ UNCHANGED <<cfn, carg, last_ret, inval>>
         ELSE /\ last_ret' = Ret(cfn[t], carg[t], LookupError(response), 0, 1)
              /\ inval' = InvalAfterSlowPath(t, "none")
              /\ cpc' = [cpc EXCEPT ![t] = "idle"]
              /\ cfn' = [cfn EXCEPT ![t] = "none"]
              /\ carg' = [carg EXCEPT ![t] = 0]
              /\ UNCHANGED cresp
  /\ UNCHANGED <<index_key_to_id_, id_to_index_, rw_writer, got, refilled, last_fill, raced>>
  /\ CacheFrame

\* ProcessIndexDefinitionWithId, first half: take rw_lock_ exclusively and
\* store key -> id, replacing what was there
InsertKey(t) ==
  /\ cpc[t] = "insert"
  /\ rw_writer = 0
  /\ rw_writer' = t
  /\ index_key_to_id_' = KeyToIdAfterInsert(index_key_to_id_, cresp[t].key, cresp[t].id)
  /\ refilled' = [refilled EXCEPT ![cresp[t].key] = TRUE]
  /\ cpc' = [cpc EXCEPT ![t] = "insert_index"]
  /\ UNCHANGED <<id_to_index_, cfn, carg, cresp, last_ret, got, inval, last_fill, raced>>
  /\ CacheFrame

\* whether the insert thread t completes follows a concurrent miss on the same
\* key: t missed in GetIndexIdByKey(key), and the call that returned last is
\* another GetIndexIdByKey(key) whose slow path inserted the entry still there
RacedInsert(t) ==
  /\ cfn[t] = "GetIndexIdByKey"
  /\ last_fill # NoIndex
  /\ last_fill.key = carg[t]
  /\ last_ret = Ret("GetIndexIdByKey", carg[t], "OK", last_fill.id, 1)

\* ProcessIndexDefinitionWithId, second half: store id -> index, release the
\* lock and return the index to the caller
InsertIndex(t) ==
  /\ cpc[t] = "insert_index"
  /\ rw_writer = t
  /\ id_to_index_' = [id_to_index_ EXCEPT ![cresp[t].id] = cresp[t]]
  /\ rw_writer' = 0
  /\ last_ret' = Ret(cfn[t], carg[t], "OK", cresp[t].id, 1)
  /\ got' = GotAfterReturn(cfn[t], cresp[t].key, cresp[t].id)
  /\ refilled' = RefilledAfterReturn(cfn[t], cresp[t].key)
  /\ inval' = InvalAfterSlowPath(t, "looked_up")
  /\ cpc' = [cpc EXCEPT ![t] = "idle"]
  /\ cfn' = [cfn EXCEPT ![t] = "none"]
  /\ carg' = [carg EXCEPT ![t] = 0]
  /\ cresp' = [cresp EXCEPT ![t] = NoIndex]
  /\ last_fill' = cresp[t]
  /\ raced' = RacedInsert(t)
  /\ UNCHANGED index_key_to_id_
  /\ CacheFrame

\* void RemoveVectorIndexByKey(index_key): erase the key under the exclusive lock
RemoveVectorIndexByKey(t, key) ==
  /\ cpc[t] = "idle"
  /\ rw_writer = 0
  /\ index_key_to_id_' = EraseKey(index_key_to_id_, key)
  /\ got' = [got EXCEPT ![key] = 0]
  /\ inval' = [inval EXCEPT ![key] = Inval("removed", 0)]
  /\ last_fill' = IF last_fill # NoIndex /\ last_fill.key = key THEN NoIndex ELSE last_fill
  /\ raced' = (raced /\ last_fill' # NoIndex)
  /\ UNCHANGED <<id_to_index_, rw_writer, cpc, cfn, carg, cresp, last_ret, refilled>>
  /\ CacheFrame

\* void RemoveVectorIndexById(index_id): erase the id under the exclusive lock
RemoveVectorIndexById(t, id) ==
  /\ cpc[t] = "idle"
  /\ rw_writer = 0
  /\ id_to_index_' = EraseId(id_to_index_, id)
  /\ got' = [k \in Keys |-> IF got[k] = id THEN 0 ELSE got[k]]
  /\ last_fill' = IF last_fill # NoIndex /\ last_fill.id = id THEN NoIndex ELSE last_fill
  /\ raced' = (raced /\ last_fill' # NoIndex)
  /\ UNCHANGED <<index_key_to_id_, rw_writer, cpc, cfn, carg, cresp, last_ret, refilled,
                 inval>>
  /\ CacheFrame

CacheNext ==
  \/ \E t \in Threads : \E fn \in GetFns : \E arg \in Args(fn) : FastPath(t, fn, arg)
  \/ \E t \in Threads : SlowGet(t)
  \/ \E t \in Threads : InsertKey(t)
  \/ \E t \in Threads : InsertIndex(t)
  \/ \E t \in Threads : \E key \in Keys : RemoveVectorIndexByKey(t, key)
  \/ \E t \in Threads : \E id \in Ids : RemoveVectorIndexById(t, id)

(***************************************************************************)
(* Shard target and the benchmark operations on it                          *)
(***************************************************************************)
\* static const std::string kClientRaw = "w"
kClientRaw == "w"

\* the characters of kAlphabet the model draws from
Alphabet == {"a", "0"}

\* the characters a prefix is made of
PrefixChars == {"P"}

DigitChars == <<"0", "1", "2", "3", "4", "5", "6", "7", "8", "9">>

\* all strings over chars of length exactly len
RECURSIVE StringsOfLen(_, _)
StringsOfLen(chars, len) ==
  IF len <= 0
    THEN {<<>>}
    ELSE {<<c>> \o s : c \in chars, s \in StringsOfLen(chars, len - 1)}

\* the prefixes a shard may have
Prefixes == UNION {StringsOfLen(PrefixChars, n) : n \in 1..MaxPrefixLen}

\* GenRandomString(len): the strings it may return, len characters of kAlphabet
GenRandomString(len) == StringsOfLen(Alphabet, len)

\* the decimal digits of num >= 0
RECURSIVE Decimal(_)
Decimal(num) ==
  IF num < 10
    THEN <<DigitChars[num + 1]>>
    ELSE Decimal(num \div 10) \o <<DigitChars[(num % 10) + 1]>>

\* str filled with leading zeros up to width len; a longer str is kept whole
RECURSIVE ZeroPad(_, _)
ZeroPad(str, len) == IF Len(str) >= len THEN str ELSE ZeroPad(<<"0">> \o str, len)

\* faulty variant of GenSeqString: the width is dropped from the format
GenSeqStringNoPad(num, len) == Decimal(num)

\* GenSeqString(num, len) = fmt::format("{0:0{1}}", num, len): len is a minimum width
GenSeqString(num, len) == ZeroPad(Decimal(num), len)

\* EncodeRawKey(str) = kClientRaw + str
EncodeRawKey(str) == <<kClientRaw>> \o str

\* int random_str_len = FLAGS_key_size - prefix.size()
RandomStrLen == key_size - Len(prefix)

\* the keys a generation may produce from count: one sequential key, or any
\* random key
GenKeys(is_random, count) ==
  IF is_random
    THEN {EncodeRawKey(prefix \o r) : r \in GenRandomString(RandomStrLen)}
    ELSE {EncodeRawKey(prefix \o GenSeqString(count, RandomStrLen))}

\* a key a sequential fill call built: the count it was built from and the key
Generated(count, key) == [count |-> count, key |-> key]

\* a key a sequential read picked: the cursor value it got and the key
Read(cursor, key) == [cursor |-> cursor, key |-> key]

\* the benchmarks of support_operations that fill a shard or read it in sequence
FillBenchmarks == {"fillseq", "fillrandom", "filltxnseq", "filltxnrandom"}
ReadSeqBenchmarks == {"readseq", "readtxnseq"}

\* the operation of the benchmark goes through a transaction
IsTxn == benchmark \in {"filltxnseq", "filltxnrandom", "readtxnseq"}

\* is_random, as the Execute of the fill benchmark passes it
IsRandom == benchmark \in {"fillrandom", "filltxnrandom"}

\* what a read of memory outside the key list yields
Garbage == <<"?">>

\* the path an Execute took
Path(kind, single) == [op |-> kind, single |-> single]

\* no Execute has run yet
NoPath == Path("none", FALSE)

\* the state before the flags are parsed and the RegionEntry is made
ShardInit ==
  /\ benchmark = "unset"
  /\ key_size = 0
  /\ batch_size = 0
  /\ arrange_kv_num = 0
  /\ prefix = <<>>
  /\ counter = 0
  /\ keys = <<>>
  /\ read_index = 0
  /\ wpc = [t \in Threads |-> "idle"]
  /\ wleft = [t \in Threads |-> 0]
  /\ wcount = [t \in Threads |-> 0]
  /\ fills = 0
  /\ generated = {}
  /\ last_key = <<>>
  /\ apc = "unset"
  /\ ai = 0
  /\ akvs = <<>>
  /\ awritten = <<>>
  /\ rpc = [t \in Threads |-> "idle"]
  /\ rleft = [t \in Threads |-> 0]
  /\ reads = <<>>
  /\ shard_crashed = FALSE
  /\ awrites = <<>>
  /\ path = NoPath

\* the values of FLAGS_arrange_kv_num tried with benchmark b: only Arrange
\* reads the flag, and only the read benchmarks run Arrange
ArrangeNums(b) == IF b \in ReadSeqBenchmarks THEN 0..MaxArrange ELSE {MaxArrange}

\* the flags are parsed and one RegionEntry with prefix p is made; the prefix
\* is not longer than the key size
ParseFlags(b, ks, bs, n, p) ==
  /\ apc = "unset"
  /\ Len(p) <= ks
  /\ benchmark' = b
  /\ key_size' = ks
  /\ batch_size' = bs
  /\ arrange_kv_num' = n
  /\ prefix' = p
  /\ apc' = "none"
  /\ UNCHANGED <<path, awrites, counter, keys, read_index, wpc, wleft, wcount, fills,
                 generated, last_key, ai, akvs, awritten, rpc, rleft, reads, shard_crashed>>
  /\ ShardFrame

\* the process runs: the flags are set and no trap has killed it
Running == apc # "unset" /\ ~shard_crashed

\* FLAGS_batch_size == 1 ? KvPut(...) : KvBatchPut(...)
FillSingle == batch_size = 1

\* if (FLAGS_batch_size <= 1) { return KvGet(...); } else { ... KvBatchGet(keys); }
ReadSingle == batch_size <= 1

\* Fill{,Txn}{Seq,Random}Operation::Execute: thread t enters KvPut / KvTxnPut
\* (FLAGS_batch_size == 1) or KvBatchPut / KvTxnBatchPut on the shard; with a
\* batch size of 0 the batched call builds no key and writes an empty batch
FillExecute(t) ==
  /\ Running
  /\ benchmark \in FillBenchmarks
  /\ wpc[t] = "idle"
  /\ rpc[t] = "idle"
  /\ fills < MaxFillCalls
  /\ fills' = fills + 1
  /\ path' = Path("fill", FillSingle)
  /\ wleft' = [wleft EXCEPT ![t] = IF FillSingle THEN 1 ELSE batch_size]
  /\ wpc' = [wpc EXCEPT ![t] = IF wleft'[t] = 0 THEN "idle" ELSE "gen"]
  /\ UNCHANGED <<benchmark, awrites, key_size, batch_size, arrange_kv_num, prefix, counter, keys, read_index,
                 wcount, generated, last_key, apc, ai, akvs, awritten, rpc, rleft, reads,
                 shard_crashed>>
  /\ ShardFrame

\* whether the fill call takes a count for the key it builds next:
\* KvBatchPut takes none for a random key, the other three always take one
TakesCount == ~(batch_size # 1 /\ ~IsTxn /\ IsRandom)

\* faulty variant of CounterAfterFetchAdd: the counter is read, not advanced
CounterAfterLoad(c) == c

\* the counter after counter.fetch_add(1, std::memory_order_relaxed)
CounterAfterFetchAdd(c) == c + 1

\* size_t count = counter.fetch_add(1, std::memory_order_relaxed)
FetchAdd(t) ==
  /\ wpc[t] = "gen"
  /\ ~shard_crashed
  /\ IF TakesCount
       THEN /\ wcount' = [wcount EXCEPT ![t] = counter]
            /\ counter' = CounterAfterFetchAdd(counter)
       ELSE /\ wcount' = [wcount EXCEPT ![t] = -1]
            /\ UNCHANGED counter
  /\ wpc' = [wpc EXCEPT ![t] = "counted"]
  /\ UNCHANGED <<benchmark, path, awrites, key_size, batch_size, arrange_kv_num, prefix, keys, read_index,
                 wleft, fills, generated, last_key, apc, ai, akvs, awritten,
                 rpc, rleft, reads, shard_crashed>>
  /\ ShardFrame

\* the key is built from the count and put into the call's kv or kvs; after
\* the last key the call writes them (Put / BatchPut / the transaction) and
\* returns, and what the store answers is not kept in the shard
BuildKey(t) ==
  /\ wpc[t] = "counted"
  /\ ~shard_crashed
  /\ \E key \in GenKeys(IsRandom, wcount[t]) :
       /\ last_key' = key
       /\ generated' = IF IsRandom
                          THEN generated
                          ELSE generated \cup {Generated(wcount[t], key)}
  /\ wleft' = [wleft EXCEPT ![t] = wleft[t] - 1]
  /\ wpc' = [wpc EXCEPT ![t] = IF wleft[t] = 1 THEN "idle" ELSE "gen"]
  /\ UNCHANGED <<benchmark, path, awrites, key_size, batch_size, arrange_kv_num, prefix, counter, keys, read_index,
                 wcount, fills, apc, ai, akvs, awritten, rpc, rleft,
                 reads, shard_crashed>>
  /\ ShardFrame

\* faulty variant of KeysAfterPush: the key is put in front
KeysAfterPushFront(ks, key) == <<key>> \o ks

\* region_entry->keys.push_back(kv.key)
KeysAfterPush(ks, key) == Append(ks, key)

\* faulty variant of BatchComplete: the batch left over at the end is not written
BatchCompleteNoTail(i) == (i + 1) % ArrangeBatchSize = 0

\* (i + 1) % batch_size == 0 || (i + 1 == FLAGS_arrange_kv_num)
BatchComplete(i) == (i + 1) % ArrangeBatchSize = 0 \/ i + 1 = arrange_kv_num

\* ReadOperation::Arrange / TxnReadOperation::Arrange is entered
ArrangeBegin ==
  /\ Running
  /\ benchmark \in ReadSeqBenchmarks
  /\ apc = "none"
  /\ apc' = "loop"
  /\ ai' = 0
  /\ akvs' = <<>>
  /\ awrites' = <<>>
  /\ UNCHANGED <<benchmark, path, key_size, batch_size, arrange_kv_num, prefix, counter, keys, read_index,
                 wpc, wleft, wcount, fills, generated, last_key, awritten,
                 rpc, rleft, reads, shard_crashed>>
  /\ ShardFrame

\* One iteration of the loop of Arrange: a key is generated from the counter,
\* put into kvs and into the key list, and a complete batch is written with
\* raw_kv->BatchPut (ReadOperation) or KvTxnBatchPut (TxnReadOperation); a
\* failed write returns false.
ArrangeIter ==
  /\ apc = "loop"
  /\ ~shard_crashed
  /\ ai < arrange_kv_num
  /\ counter' = CounterAfterFetchAdd(counter)
  /\ LET key == EncodeRawKey(prefix \o GenSeqString(counter, RandomStrLen))
         kvs1 == Append(akvs, key)
     IN /\ keys' = KeysAfterPush(keys, key)
        /\ IF BatchComplete(ai)
             THEN \E st \in Statuses :
                    /\ awrites' = Append(awrites, [n |-> Len(kvs1), st |-> st])
                    /\ IF st = "OK"
                         THEN /\ akvs' = <<>>
                              /\ awritten' = awritten \o kvs1
                              /\ ai' = ai + 1
                              /\ apc' = "loop"
                         ELSE /\ akvs' = kvs1
                              /\ apc' = "false"
                              /\ UNCHANGED <<awritten, ai>>
             ELSE /\ akvs' = kvs1
                  /\ ai' = ai + 1
                  /\ UNCHANGED <<awritten, awrites, apc>>
  /\ UNCHANGED <<benchmark, path, key_size, batch_size, arrange_kv_num, prefix, read_index,
                 wpc, wleft, wcount, fills, generated, last_key,
                 rpc, rleft, reads, shard_crashed>>
  /\ ShardFrame

\* the loop of Arrange has run FLAGS_arrange_kv_num times: return true
ArrangeEnd ==
  /\ apc = "loop"
  /\ ~shard_crashed
  /\ ai = arrange_kv_num
  /\ apc' = "true"
  /\ UNCHANGED <<benchmark, path, awrites, key_size, batch_size, arrange_kv_num, prefix, counter, keys, read_index,
                 wpc, wleft, wcount, fills, generated, last_key, ai, akvs, awritten,
                 rpc, rleft, reads, shard_crashed>>
  /\ ShardFrame

\* faulty variant of CursorIndex: the cursor stops at the last key
CursorIndexClamped(cursor, size) == IF cursor < size THEN cursor ELSE size - 1

\* region_entry->read_index % keys.size()
CursorIndex(cursor, size) == cursor % size

\* keys[region_entry->read_index++ % keys.size()]: the key picked at cursor;
\* the element at index i of the vector is element i + 1 of the sequence.  On
\* an empty key list the remainder is taken by zero: a pick that survives it
\* yields whatever lies there.
PickedKey(cursor) ==
  IF Len(keys) = 0 THEN Garbage ELSE keys[CursorIndex(cursor, Len(keys)) + 1]

\* the remainder by keys.size() traps when the key list is empty
MayTrap == Len(keys) = 0

\* region_entry->read_index++ hands the cursor value out and advances the
\* cursor in one step
ReadIndexAfterIncrement(cursor) == cursor + 1

\* the sequential reads run once Arrange has returned true
CanRead(t) ==
  /\ Running
  /\ benchmark \in ReadSeqBenchmarks
  /\ apc = "true"
  /\ wpc[t] = "idle"
  /\ Len(reads) < MaxReads

\* ReadSeqOperation::Execute / TxnReadSeqOperation::Execute is entered by
\* thread t.  With FLAGS_batch_size <= 1 it picks one key and reads it.  With a
\* larger batch TxnReadSeqOperation goes on to pick batch_size keys; in
\* ReadSeqOperation the local vector `keys` hides the key list, so the first
\* pick divides by the size of an empty vector and indexes it: the division
\* traps, or the pick yields whatever lies there.
ReadSeqExecute(t) ==
  /\ CanRead(t)
  /\ rpc[t] = "idle"
  /\ path' = Path("read", ReadSingle)
  /\ IF ReadSingle
       THEN \/ /\ reads' = Append(reads, Read(read_index, PickedKey(read_index)))
               /\ read_index' = ReadIndexAfterIncrement(read_index)
               /\ UNCHANGED <<rpc, rleft, shard_crashed>>
            \/ /\ MayTrap
               /\ shard_crashed' = TRUE
               /\ UNCHANGED <<reads, read_index, rpc, rleft>>
       ELSE IF IsTxn
         THEN /\ rpc' = [rpc EXCEPT ![t] = "batch"]
              /\ rleft' = [rleft EXCEPT ![t] = batch_size]
              /\ UNCHANGED <<reads, read_index, shard_crashed>>
         ELSE \/ /\ shard_crashed' = TRUE
                 /\ UNCHANGED <<reads, read_index, rpc, rleft>>
              \/ /\ reads' = Append(reads, Read(read_index, Garbage))
                 /\ read_index' = ReadIndexAfterIncrement(read_index)
                 /\ rpc' = [rpc EXCEPT ![t] = "shadow"]
                 /\ rleft' = [rleft EXCEPT ![t] = batch_size - 1]
                 /\ UNCHANGED shard_crashed
  /\ UNCHANGED <<benchmark, awrites, key_size, batch_size, arrange_kv_num, prefix, counter, keys,
                 wpc, wleft, wcount, fills, generated, last_key,
                 apc, ai, akvs, awritten>>
  /\ ShardFrame

\* one more pick of a batched read: TxnReadSeqOperation picks from the key
\* list, ReadSeqOperation from its own local vector, which holds what the
\* first pick put there; after the last pick the batch is read
ReadNext(t) ==
  /\ rpc[t] \in {"batch", "shadow"}
  /\ ~shard_crashed
  /\ IF rleft[t] = 0
       THEN /\ rpc' = [rpc EXCEPT ![t] = "idle"]
            /\ UNCHANGED <<reads, read_index, rleft, shard_crashed>>
       ELSE \/ /\ reads' = Append(reads,
                    Read(read_index,
                         IF rpc[t] = "batch" THEN PickedKey(read_index) ELSE Garbage))
               /\ read_index' = ReadIndexAfterIncrement(read_index)
               /\ rleft' = [rleft EXCEPT ![t] = rleft[t] - 1]
               /\ UNCHANGED <<rpc, shard_crashed>>
            \/ /\ rpc[t] = "batch"
               /\ MayTrap
               /\ shard_crashed' = TRUE
               /\ UNCHANGED <<reads, read_index, rleft, rpc>>
  /\ UNCHANGED <<benchmark, path, awrites, key_size, batch_size, arrange_kv_num, prefix, counter, keys,
                 wpc, wleft, wcount, fills, generated, last_key,
                 apc, ai, akvs, awritten>>
  /\ ShardFrame

ShardNext ==
  \/ \E b \in FillBenchmarks \cup ReadSeqBenchmarks : \E ks \in 1..MaxKeySize :
       \E bs \in 0..MaxBatchSize : \E n \in ArrangeNums(b) : \E p \in Prefixes :
         ParseFlags(b, ks, bs, n, p)
  \/ \E t \in Threads : FillExecute(t)
  \/ \E t \in Threads : FetchAdd(t)
  \/ \E t \in Threads : BuildKey(t)
  \/ ArrangeBegin
  \/ ArrangeIter
  \/ ArrangeEnd
  \/ \E t \in Threads : ReadSeqExecute(t)
  \/ \E t \in Threads : ReadNext(t)

(***************************************************************************)
(* Raw key-value store                                                      *)
(***************************************************************************)
StoreKeys == 1..NumStoreKeys
StoreValues == {"v1", "v2"}

\* no value: the null std::shared_ptr<std::string> a read of an absent key yields
NoValue == "nullptr"

KVPair(key, value) == [key |-> key, value |-> value]

\* all lists over S of length at most n
RECURSIVE SeqsUpTo(_, _)
SeqsUpTo(S, n) ==
  IF n = 0 THEN {<<>>}
  ELSE LET shorter == SeqsUpTo(S, n - 1)
       IN  shorter \cup {Append(q, x) : q \in {r \in shorter : Len(r) = n - 1}, x \in S}

\* the lists of keys handed to BatchGet: no key twice
StoreKeyLists == {list \in SeqsUpTo(StoreKeys, NumStoreKeys) :
                    \A i, j \in 1..Len(list) : list[i] = list[j] => i = j}

\* the lists of pairs handed to BatchPut: a value for each key of such a list
StoreBatches ==
  UNION {{[i \in 1..Len(list) |-> KVPair(list[i], values[i])] :
            values \in [1..Len(list) -> StoreValues]} : list \in StoreKeyLists}

\* Engine::KvPut: the key holds the value, whatever it held before
EngineKvPut(m, key, value) == [m EXCEPT ![key] = value]

\* Engine::KvGet: the value the key holds
EngineKvGet(m, key) == m[key]

\* faulty variant of StorageKvPut: the write is not handed to the engine
StorageKvPutDropped(m, key, value) == m

\* Storage::KvPut: return engine_->KvPut(ctx, key, value);
StorageKvPut(m, key, value) == EngineKvPut(m, key, value)

\* Storage::KvGet: return engine_->KvGet(ctx, key);
StorageKvGet(m, key) == EngineKvGet(m, key)

\* the engine after the first n pairs of list are put, in order
RECURSIVE PutAll(_, _, _)
PutAll(m, list, n) ==
  IF n = 0 THEN m
  ELSE StorageKvPut(PutAll(m, list, n - 1), list[n].key, list[n].value)

\* the pairs a batched read of list returns: one per key found, in input order
RECURSIVE GetAll(_, _)
GetAll(m, list) ==
  IF list = <<>> THEN <<>>
  ELSE LET key == list[1]
           rest == GetAll(m, Tail(list))
       IN  IF StorageKvGet(m, key) = NoValue THEN rest
           ELSE <<KVPair(key, StorageKvGet(m, key))>> \o rest

NoWrite == [fn |-> "none", kvs |-> <<>>]

\* what a raw call returned: its status, and for a read the keys asked for
\* and the pairs found
StoreRet(fn, list, out, st) == [fn |-> fn, keys |-> list, kvs |-> out, st |-> st]

StoreInit ==
  /\ engine_ = [k \in StoreKeys |-> NoValue]
  /\ last_write = NoWrite
  /\ store_ret = StoreRet("none", <<>>, <<>>, "OK")

\* raw_kv->Put(key, value): a successful call has stored the pair; a failed
\* call may or may not have reached the engine
RawPut(key, value) ==
  /\ \E st \in {"OK", "Error"}, applied \in BOOLEAN :
       /\ st = "OK" => applied
       /\ engine_' = IF applied THEN StorageKvPut(engine_, key, value) ELSE engine_
       /\ last_write' = IF st = "OK" THEN [fn |-> "Put", kvs |-> <<KVPair(key, value)>>]
                        ELSE NoWrite
       /\ store_ret' = StoreRet("Put", <<>>, <<>>, st)
  /\ StoreFrame

\* raw_kv->Get(key, value)
RawGet(key) ==
  /\ store_ret' = IF StorageKvGet(engine_, key) = NoValue
                    THEN StoreRet("Get", <<key>>, <<>>, "NotFound")
                    ELSE StoreRet("Get", <<key>>, <<KVPair(key, StorageKvGet(engine_, key))>>, "OK")
  /\ UNCHANGED <<engine_, last_write>>
  /\ StoreFrame

\* raw_kv->BatchPut(kvs): a successful call has stored every pair in order;
\* a failed call has stored some of the leading pairs
RawBatchPut(list) ==
  /\ \E st \in {"OK", "Error"}, n \in 0..Len(list) :
       /\ st = "OK" => n = Len(list)
       /\ engine_' = PutAll(engine_, list, n)
       /\ last_write' = IF st = "OK" THEN [fn |-> "BatchPut", kvs |-> list] ELSE NoWrite
       /\ store_ret' = StoreRet("BatchPut", <<>>, <<>>, st)
  /\ StoreFrame

\* raw_kv->BatchGet(keys, kvs)
RawBatchGet(list) ==
  /\ store_ret' = StoreRet("BatchGet", list, GetAll(engine_, list), "OK")
  /\ UNCHANGED <<engine_, last_write>>
  /\ StoreFrame

StoreNext ==
  \/ \E key \in StoreKeys, value \in StoreValues : RawPut(key, value)
  \/ \E key \in StoreKeys : RawGet(key)
  \/ \E list \in StoreBatches : RawBatchPut(list)
  \/ \E list \in StoreKeyLists : RawBatchGet(list)

(***************************************************************************)
(* Multi-shard transactional writes                                         *)
(***************************************************************************)
Shards == 1..NumShards

\* the lists of shard targets a caller hands over: no target twice
RegionLists == {list \in SeqsUpTo(Shards, NumShards) :
                  \A i, j \in 1..Len(list) : list[i] = list[j] => i = j}

\* the pair generated for a shard from the count fetched for it: a sequential
\* key carries the count, a random key does not, and the count is taken anyway
MultiKv(shard, count) == <<shard, count>>

TxnFillBenchmarks == {"filltxnseq", "filltxnrandom"}

MultiInit ==
  /\ region_counter = [s \in Shards |-> 0]
  /\ m_pc = "idle"
  /\ m_fn = "none"
  /\ m_entries = <<>>
  /\ m_r = 0
  /\ m_i = 0
  /\ m_kvs = <<>>
  /\ m_start = [s \in Shards |-> 0]
  /\ m_calls = 0

\* FillTxnSeqOperation / FillTxnRandomOperation::Execute(region_entries):
\* KvTxnPut(region_entries, ...) or KvTxnBatchPut(region_entries, ...) is entered
MultiExecute(entries) ==
  /\ flag_pc = "parsed"
  /\ Running
  /\ benchmark \in TxnFillBenchmarks
  /\ pc = "idle"
  /\ m_pc \in {"idle", "delegated"}
  /\ m_calls < MaxMultiCalls
  /\ m_calls' = m_calls + 1
  /\ m_fn' = IF FillSingle THEN "KvTxnPut" ELSE "KvTxnBatchPut"
  /\ m_entries' = entries
  /\ m_r' = 0
  /\ m_i' = 0
  /\ m_kvs' = <<>>
  /\ m_start' = region_counter
  /\ m_pc' = "gen"
  /\ UNCHANGED region_counter
  /\ MultiFrame

\* faulty variant of PairsPerEntry: one pair per region entry in both functions
PairsPerEntryOne(f) == 1

\* the pairs function f generates for one region entry: the body of the
\* range-for of KvTxnPut once, the inner loop of KvTxnBatchPut
\* (for (int i = 0; i < FLAGS_batch_size; ++i)) batch_size times
PairsPerEntry(f) == IF f = "KvTxnPut" THEN 1 ELSE batch_size

\* size_t count = region_entry->counter.fetch_add(1, ...); kv.key = ...;
\* kvs.push_back(kv);
MultiFetchAdd ==
  /\ m_pc = "gen"
  /\ m_r < Len(m_entries)
  /\ m_i < PairsPerEntry(m_fn)
  /\ LET shard == m_entries[m_r + 1]
     IN /\ region_counter' = [region_counter EXCEPT ![shard] = CounterAfterFetchAdd(@)]
        /\ m_kvs' = Append(m_kvs, MultiKv(shard, region_counter[shard]))
  /\ m_i' = m_i + 1
  /\ UNCHANGED <<m_pc, m_fn, m_entries, m_r, m_start, m_calls>>
  /\ MultiFrame

\* the pairs of the current region entry are generated: the range-for goes on
MultiNextEntry ==
  /\ m_pc = "gen"
  /\ m_r < Len(m_entries)
  /\ m_i >= PairsPerEntry(m_fn)
  /\ m_r' = m_r + 1
  /\ m_i' = 0
  /\ UNCHANGED <<region_counter, m_pc, m_fn, m_entries, m_kvs, m_start, m_calls>>
  /\ MultiFrame

\* return KvTxnPut(kvs); / return KvTxnBatchPut(kvs);
MultiDelegate ==
  /\ m_pc = "gen"
  /\ m_r = Len(m_entries)
  /\ pc = "idle"
  /\ EnterLocals(m_fn, m_kvs)
  /\ m_pc' = "delegated"
  /\ UNCHANGED <<region_counter, m_fn, m_entries, m_r, m_i, m_kvs, m_start, m_calls>>
  /\ UNCHANGED <<flagVars, coordVars, cacheVars, shardVars, storeVars>>

\* the process of a transactional fill benchmark: its flags, the multi-shard
\* writes and the driver functions they end in
MultiNext ==
  \/ ParseTxnFlags(FALSE, <<"S", "I">>)
  \/ \E b \in TxnFillBenchmarks : \E bs \in 0..MaxBatchSize :
       ParseFlags(b, MaxKeySize, bs, MaxArrange, <<>>)
  \/ \E entries \in RegionLists : MultiExecute(entries)
  \/ MultiFetchAdd
  \/ MultiNextEntry
  \/ MultiDelegate
  \/ NewTransaction("KvTxnPut")
  \/ Loop("KvTxnPut")
  \/ PreCommit("KvTxnPut")
  \/ Commit("KvTxnPut")
  \/ End("KvTxnPut")
  \/ NewTransaction("KvTxnBatchPut")
  \/ BatchPut("KvTxnBatchPut")
  \/ PreCommit("KvTxnBatchPut")
  \/ Commit("KvTxnBatchPut")
  \/ End("KvTxnBatchPut")
  \/ Return

(***************************************************************************)
(* Specifications                                                           *)
(***************************************************************************)
vars == <<txnVars, flagVars, coordVars, cacheVars, shardVars, storeVars, multiVars>>

Init == TxnInit /\ FlagInit /\ CoordInit /\ CacheInit /\ ShardInit /\ StoreInit /\ MultiInit

\* the command line is parsed
ParseCommandLine == \E pess \in BOOLEAN, value \in FlagStrings : ParseTxnFlags(pess, value)

TxnNext == ParseCommandLine \/ KvTxnPut \/ KvTxnBatchPut \/ KvTxnGet \/ KvTxnBatchGet \/ Return

Next == TxnNext \/ CoordNext \/ CacheNext \/ ShardNext \/ StoreNext \/ MultiNext

Spec == Init /\ [][Next]_vars

\* the transaction driver alone
TxnSpec == Init /\ [][TxnNext]_vars

\* the channel manager alone
CoordSpec == Init /\ [][CoordNext]_vars

\* the index cache alone
CacheSpec == Init /\ [][CacheNext]_vars

\* one shard target and the benchmark operations on it alone
ShardSpec == Init /\ [][ShardNext]_vars

\* the raw key-value store alone
StoreSpec == Init /\ [][StoreNext]_vars

\* the multi-shard transactional writes with the driver functions they call
MultiSpec == Init /\ [][MultiNext]_vars

(***************************************************************************)
(* Transaction driver: properties                                           *)
(***************************************************************************)
\* the steps that open the transaction or read/write through it
RwFns == {"Put", "BatchPut", "Get", "BatchGet"}
OpenOrRwFns == RwFns \cup {"NewTransaction"}

\* the positions of the failed steps of the call so far
Failed == {k \in 1..Len(calls) : calls[k].st # "OK"}

\* the position of the first failed step (Failed is not empty)
FirstFailed == CHOOSE k \in Failed : \A j \in Failed : k <= j

\* the number of read/write steps function f issues for list in when none fails
RwSteps(f, in) == IF f = "KvTxnBatchPut" THEN 1 ELSE Len(in)

\* C1: in each of the four driver functions, once NewTransaction or a
\* Put/BatchPut/Get/BatchGet has returned a non-OK status, that step is the last
\* one issued on the transaction: no PreCommit, no Commit, no later Put/Get of
\* the list follows it.
C1_NoStepAfterFailedOpenOrRw ==
  \A k \in 1..Len(calls) :
    (calls[k].fn \in OpenOrRwFns /\ calls[k].st # "OK") => k = Len(calls)

\* a KvTxnPut of a two-element list has returned after its first Put failed
C1_Witness ==
  /\ pc = "done"
  /\ op = "KvTxnPut"
  /\ Len(kvs) = 2
  /\ Len(calls) = 2
  /\ calls[2].fn = "Put"
  /\ calls[2].st # "OK"

\* C2: Commit is issued only right after a PreCommit of the same call that
\* returned OK, and PreCommit is issued only after every read/write of the call
\* has been issued and every earlier step has returned OK.
C2_CommitAfterPreCommitAfterRw ==
  \A k \in 1..Len(calls) :
    /\ calls[k].fn = "Commit" =>
         /\ k > 1
         /\ calls[k - 1].fn = "PreCommit"
         /\ calls[k - 1].st = "OK"
    /\ calls[k].fn = "PreCommit" =>
         /\ \A j \in 1..(k - 1) : calls[j].st = "OK"
         /\ Cardinality({j \in 1..(k - 1) : calls[j].fn \in RwFns}) = RwSteps(op, kvs)

\* a KvTxnGet of two keys has read both, pre-committed and committed
C2_Witness ==
  /\ pc = "done"
  /\ op = "KvTxnGet"
  /\ Len(kvs) = 2
  /\ Len(calls) = 5
  /\ calls[4].fn = "PreCommit"
  /\ calls[5].fn = "Commit"

\* C3: the handle a driver call opened is released exactly once before the call
\* returns (never more often than it was opened, and not at all when the open
\* failed and there is no handle), and every step on the handle is issued while
\* it is live.
C3_HandleReleasedExactlyOnce ==
  /\ opened <= 1
  /\ released <= opened
  /\ pc = "done" => released = opened
  /\ \A k \in 1..Len(calls) :
       calls[k].fn # "NewTransaction" => calls[k].handle = "live"

\* a KvTxnBatchPut whose PreCommit failed has returned with its handle released
C3_Witness ==
  /\ pc = "done"
  /\ op = "KvTxnBatchPut"
  /\ opened = 1
  /\ released = 1
  /\ txn = "deleted"
  /\ calls[Len(calls)].fn = "PreCommit"
  /\ calls[Len(calls)].st # "OK"

\* C4: result.status is the status of the first step that failed, from the
\* moment it failed until the call returns; when no step failed the call returns
\* the OK status of Commit.
C4_FirstFailingStatusReturned ==
  /\ Failed # {} => result_status = calls[FirstFailed].st
  /\ (pc = "done" /\ Failed = {}) =>
       /\ calls[Len(calls)].fn = "Commit"
       /\ result_status = calls[Len(calls)].st
       /\ result_status = "OK"

\* a KvTxnBatchGet of two groups has returned the status of its failed second
\* BatchGet
C4_Witness ==
  /\ pc = "done"
  /\ op = "KvTxnBatchGet"
  /\ Len(calls) = 3
  /\ calls[3].fn = "BatchGet"
  /\ calls[3].st = "Conflict"
  /\ result_status = "Conflict"


(***************************************************************************)
(* CoordinatorInteraction: properties                                       *)
(***************************************************************************)
\* C5: with a non-empty endpoint list, a NextLeader(i) called while the leader
\* pointer equals i and every other thread is idle leaves the leader pointer,
\* which the next GetLeader returns, at (i + 1) mod N.
C5_NextLeaderRotates ==
  [][\A t \in Threads :
       ( /\ tpc[t] = "observed"
         /\ tpc'[t] = "done"
         /\ Len(endpoints_) >= 1
         /\ leader_index_ = observed[t]
         /\ \A u \in Threads \ {t} : tpc[u] = "idle" )
       => leader_index_' = (observed[t] + 1) % Len(endpoints_)]_vars

\* C6: when all threads (two or more) observed the same stale index i and each
\* has completed its NextLeader(i), the leader pointer is (i + 1) mod N.
C6_ConcurrentNextLeaderRotatesOnce ==
  \A i \in 0..MaxEndpoints :
    ( /\ NumThreads >= 2
      /\ Len(endpoints_) >= 1
      /\ \A t \in Threads : tpc[t] = "done" /\ observed[t] = i )
    => leader_index_ = (i + 1) % Len(endpoints_)

\* C7: after the one successful initialisation of an instance, whatever
\* GetLeader, NextLeader and SetLeaderAddress calls follow, the leader pointer is
\* an index into the endpoint list and no next index was computed modulo zero.
C7_LeaderIndexValid ==
  (init_calls = 1 /\ init_ret = "true") =>
    /\ 0 <= leader_index_
    /\ leader_index_ < Len(endpoints_)
    /\ ~div_by_zero

\* C8: Init returns failure for an empty endpoint list, and whenever Init has
\* returned success there is one channel per endpoint, channel k bound to
\* endpoint k.
C8_OneChannelPerEndpoint ==
  init_fn = "Init" =>
    /\ endpoints_ = <<>> => init_ret = "false"
    /\ init_ret = "true" =>
         /\ Len(channels_) = Len(endpoints_)
         /\ \A k \in 1..Len(channels_) : channels_[k] = endpoints_[k]

\* C9: an instance never has the name-service flag set while it holds a
\* non-empty literal endpoint list or channel list.
C9_ModesMutuallyExclusive ==
  ~(use_service_name_ /\ (endpoints_ # <<>> \/ channels_ # <<>>))

(***************************************************************************)
(* VectorIndexCache: properties                                             *)
(***************************************************************************)
\* C10 as the specification states it (refuted): after a successful
\* GetVectorIndexByKey(k) returned id i and no removal followed, every later
\* GetIndexIdByKey(k) returns i from the fast path, without a remote lookup.
C10_FastPathReturnsGotId ==
  [][\A t \in Threads : \A k \in Keys :
       (got[k] # 0 /\ FastPath(t, "GetIndexIdByKey", k))
       => /\ cpc'[t] = "idle"
          /\ last_ret' = Ret("GetIndexIdByKey", k, "OK", got[k], 0)]_vars

\* C10 (amended): after a successful GetVectorIndexByKey(k) returned id i, with
\* no removal and no insertion of a later lookup result for k since, a
\* GetIndexIdByKey(k) returns i from the fast path, without a remote lookup.
C10_FastPathReturnsGotIdUnlessRefilled ==
  [][\A t \in Threads : \A k \in Keys :
       (got[k] # 0 /\ ~refilled[k] /\ FastPath(t, "GetIndexIdByKey", k))
       => /\ cpc'[t] = "idle"
          /\ last_ret' = Ret("GetIndexIdByKey", k, "OK", got[k], 0)]_vars

\* a GetIndexIdByKey has just returned, without a remote lookup, the id that
\* the latest GetVectorIndexByKey of the same key had returned
C10_Witness ==
  /\ last_ret.fn = "GetIndexIdByKey"
  /\ last_ret.st = "OK"
  /\ last_ret.lookups = 0
  /\ last_ret.arg \in Keys
  /\ got[last_ret.arg] # 0
  /\ ~refilled[last_ret.arg]
  /\ last_ret.id = got[last_ret.arg]

\* thread t ends a Get call in this step
Returns(t) == cpc[t] # "idle" /\ cpc'[t] = "idle"

\* C11 as the specification states it (refuted): after
\* RemoveVectorIndexByKey(k), the next GetIndexIdByKey(k) misses and makes
\* exactly one remote lookup, and once that lookup succeeded the following
\* GetIndexIdByKey(k) makes none.
C11_RemovedKeyLooksUpOnce ==
  [][\A t \in Threads : \A k \in Keys :
       /\ (inval[k].st = "removed" /\ FastPath(t, "GetIndexIdByKey", k))
          => cpc'[t] = "lookup"
       /\ (inval[k] = Inval("pending", t) /\ Returns(t))
          => (last_ret'.fn = "GetIndexIdByKey" /\ last_ret'.lookups = 1)
       /\ (inval[k].st = "looked_up" /\ FastPath(t, "GetIndexIdByKey", k))
          => (cpc'[t] = "idle" /\ last_ret'.st = "OK" /\ last_ret'.lookups = 0)]_vars

\* C11 (amended): after RemoveVectorIndexByKey(k), with no lookup result
\* inserted for k since (the key is still absent: only an insert makes it
\* present), the next GetIndexIdByKey(k) misses and makes exactly one remote
\* lookup, whatever id_to_index_ still holds; once that lookup succeeded, and
\* until k is removed again, a GetIndexIdByKey(k) makes none.
C11_RemovedKeyLooksUpOnceUnlessRefilled ==
  [][\A t \in Threads : \A k \in Keys :
       /\ (inval[k].st = "removed" /\ index_key_to_id_[k] = 0
             /\ FastPath(t, "GetIndexIdByKey", k))
          => cpc'[t] = "lookup"
       /\ (inval[k] = Inval("pending", t) /\ Returns(t))
          => (last_ret'.fn = "GetIndexIdByKey" /\ last_ret'.lookups = 1)
       /\ (inval[k].st = "looked_up" /\ FastPath(t, "GetIndexIdByKey", k))
          => (cpc'[t] = "idle" /\ last_ret'.st = "OK" /\ last_ret'.lookups = 0)]_vars

\* a key was removed while an index stayed cached under its old id, the next
\* GetIndexIdByKey looked it up and the one after that has returned from the
\* fast path
C11_Witness ==
  \E k \in Keys :
    /\ inval[k].st = "looked_up"
    /\ last_ret = Ret("GetIndexIdByKey", k, "OK", index_key_to_id_[k], 0)
    /\ \E i \in Ids : i # index_key_to_id_[k] /\ id_to_index_[i] = VectorIndex(i, k)

\* C12: RemoveVectorIndexByKey and RemoveVectorIndexById report nothing to the
\* caller, leave both maps as they are when the key or id is absent, touch
\* only the entry they are asked to erase, and erasing the same key or id once
\* more leaves the maps as the first erase left them.
C12_RemoveIdempotent ==
  [][/\ \A t \in Threads : \A key \in Keys :
          RemoveVectorIndexByKey(t, key)
          => /\ index_key_to_id_[key] = 0 => index_key_to_id_' = index_key_to_id_
             /\ id_to_index_' = id_to_index_
             /\ EraseKey(index_key_to_id_', key) = index_key_to_id_'
             /\ last_ret' = last_ret
     /\ \A t \in Threads : \A id \in Ids :
          RemoveVectorIndexById(t, id)
          => /\ id_to_index_[id] = NoIndex => id_to_index_' = id_to_index_
             /\ index_key_to_id_' = index_key_to_id_
             /\ EraseId(id_to_index_', id) = id_to_index_'
             /\ last_ret' = last_ret]_vars

\* a key was removed from a cache that has never held an entry: no Get call
\* has returned and none is under way
C12_Witness ==
  \E k \in Keys :
    /\ inval[k].st = "removed"
    /\ last_ret.fn = "none"
    /\ \A t \in Threads : cpc[t] = "idle"
    /\ index_key_to_id_ = [j \in Keys |-> 0]
    /\ id_to_index_ = [i \in Ids |-> NoIndex]

\* C13: a slow lookup goes on to the insertion only with a response that is OK
\* and carries an index definition with an id; with any other response the
\* call ends with an error after its one remote lookup, and neither slow-path
\* outcome has changed a map when the lookup step ends.
C13_NothingCachedOnFailedLookup ==
  [][\A t \in Threads :
       SlowGet(t)
       => /\ index_key_to_id_' = index_key_to_id_
          /\ id_to_index_' = id_to_index_
          /\ IF cpc'[t] = "insert"
               THEN cresp'[t].id \in Ids /\ cresp'[t].key \in Keys
               ELSE /\ cpc'[t] = "idle"
                    /\ last_ret'.st # "OK"
                    /\ last_ret'.fn = cfn[t]
                    /\ last_ret'.arg = carg[t]
                    /\ last_ret'.lookups = 1]_vars

\* a lookup has just failed on a malformed response while the cache holds an
\* entry in each map
C13_Witness ==
  /\ last_ret.st = "InvalidResponse"
  /\ last_ret.lookups = 1
  /\ \E k \in Keys : index_key_to_id_[k] # 0
  /\ \E i \in Ids : id_to_index_[i] # NoIndex

\* C14: the two inserts of one lookup happen under one exclusive hold of
\* rw_lock_: no fast path runs while a thread has stored key -> id and not yet
\* id -> index, and when the insert ends the index cached under the id the key
\* maps to is the index of that key.
C14_MapsFilledTogether ==
  [][/\ \A t \in Threads : \A fn \in GetFns : \A arg \in Args(fn) :
          FastPath(t, fn, arg) => \A u \in Threads : cpc[u] # "insert_index"
     /\ \A t \in Threads :
          InsertIndex(t)
          => /\ index_key_to_id_'[cresp[t].key] = cresp[t].id
             /\ id_to_index_'[cresp[t].id] = cresp[t]
             /\ rw_writer' = 0]_vars

\* a thread holds the lock exclusively half way through its insert: the key
\* maps to an id under which no index of that key is cached yet, while another
\* thread is idle and about to read
C14_Witness ==
  \E t, u \in Threads :
    /\ t # u
    /\ cpc[t] = "insert_index"
    /\ rw_writer = t
    /\ index_key_to_id_[cresp[t].key] = cresp[t].id
    /\ id_to_index_[cresp[t].id] # cresp[t]
    /\ cpc[u] = "idle"

(***************************************************************************)
(* Shard target: properties                                                 *)
(***************************************************************************)
\* the elements of a sequence
Range(seq) == {seq[i] : i \in 1..Len(seq)}

\* the threads that hold a count they have not built a key from yet
Counted == {t \in Threads : wpc[t] = "counted" /\ TakesCount}

\* the key a sequential fill builds from count
SeqKey(count) == EncodeRawKey(prefix \o GenSeqString(count, RandomStrLen))

\* C15: in any interleaving of the sequential fill calls of several threads on
\* one shard, no count is handed out twice, neither to two calls under way nor
\* to a call under way and a key already built, so that the key a call is
\* about to build differs from every key built and from the key of every other
\* call, and keys built from different counts differ.
C15_CountsAndKeysDistinct ==
  /\ \A t, u \in Counted : t # u => wcount[t] # wcount[u]
  /\ \A t \in Counted : \A g \in generated : g.count # wcount[t]
  /\ ~IsRandom =>
       /\ \A t, u \in Counted : t # u => SeqKey(wcount[t]) # SeqKey(wcount[u])
       /\ \A t \in Counted : \A g \in generated : g.key # SeqKey(wcount[t])
       /\ \A g, h \in generated : g.count # h.count => g.key # h.key
       /\ \A g \in generated : g.count \in 0..(counter - 1)

\* two threads of a sequential fill hold a count each at the same time, after
\* a key was built
C15_Witness ==
  /\ benchmark \in {"fillseq", "filltxnseq"}
  /\ Cardinality(Counted) >= 2
  /\ generated # {}

\* C16: each iteration of Arrange puts the key it generates at the end of the
\* key list, and when Arrange, entered with an empty key list, returns true the
\* key list holds FLAGS_arrange_kv_num keys that are pairwise distinct.
C16_ArrangeFillsKeyList ==
  [][/\ ArrangeIter
        => keys' = Append(keys, EncodeRawKey(prefix \o GenSeqString(counter, RandomStrLen)))
     /\ apc' = "true"
        => /\ Len(keys') = arrange_kv_num
           /\ \A i, j \in 1..Len(keys') : i # j => keys'[i] # keys'[j]]_vars

\* Arrange has returned true for three keys, written in two batches
C16_Witness ==
  /\ apc = "true"
  /\ arrange_kv_num = 3
  /\ Len(keys) = 3
  /\ Len(awritten) = 3

\* C17 (refuted by the code): when Arrange returns false the key list holds
\* exactly the keys of the batches written successfully.
C17_FailedArrangeKeepsWrittenKeys ==
  apc = "false" => keys = awritten

\* C18: with FLAGS_batch_size <= 1 and a key list of length L >= 1 the j-th
\* sequential read (j = 0, 1, ...) picks keys[j mod L], the cursor starting at 0
\* and having advanced by one with each read.
C18_SequentialReadCycles ==
  (benchmark \in ReadSeqBenchmarks /\ batch_size <= 1 /\ Len(keys) >= 1)
  => /\ read_index = Len(reads)
     /\ \A j \in 1..Len(reads) :
          /\ reads[j].cursor = j - 1
          /\ reads[j].key = keys[((j - 1) % Len(keys)) + 1]

\* single-key reads went through a list of two keys and wrapped to the first
C18_Witness ==
  /\ benchmark \in ReadSeqBenchmarks
  /\ batch_size = 1
  /\ Len(keys) = 2
  /\ Len(reads) = 3
  /\ reads[3].key = keys[1]
  /\ reads[3].key # reads[2].key

\* C19 (refuted by the code): every key a sequential read picks is a key of
\* the key list, no cursor value is handed out twice and none is skipped.
C19_ReadsDrawnFromKeyList ==
  /\ \A j \in 1..Len(reads) : reads[j].key \in Range(keys)
  /\ \A i, j \in 1..Len(reads) : i # j => reads[i].cursor # reads[j].cursor
  /\ {reads[j].cursor : j \in 1..Len(reads)} = 0..(read_index - 1)

\* every key generated for the shard so far, by a fill call or by Arrange
AllKeys ==
  {g.key : g \in generated} \cup Range(keys)
    \cup (IF last_key = <<>> THEN {} ELSE {last_key})

\* key starts with str
StartsWith(key, str) == Len(key) >= Len(str) /\ SubSeq(key, 1, Len(str)) = str

\* the number a string of decimal digits denotes
RECURSIVE DecimalValue(_)
DecimalValue(str) ==
  IF str = <<>>
    THEN 0
    ELSE 10 * DecimalValue(SubSeq(str, 1, Len(str) - 1))
         + (CHOOSE d \in 0..9 : DigitChars[d + 1] = str[Len(str)])

\* C20 as the specification states it (refuted): every generated key starts
\* with the prefix of the shard and is FLAGS_key_size long.
C20_KeyIsPrefixAndSuffixOfKeySize ==
  \A key \in AllKeys : StartsWith(key, prefix) /\ Len(key) = key_size

\* what follows the marker and the prefix in a key
Suffix(key) == SubSeq(key, 2 + Len(prefix), Len(key))

\* a sequential suffix: decimal digits, zero-padded to RandomStrLen digits at
\* least, and only as long as the number needs beyond that
IsSeqSuffix(str) ==
  /\ \A i \in 1..Len(str) : str[i] \in Range(DigitChars)
  /\ Len(str) >= 1
  /\ Len(str) >= RandomStrLen
  /\ Len(str) > RandomStrLen => (Len(str) = 1 \/ str[1] # "0")

\* C20 (amended): every generated key is the marker "w", then the prefix of
\* the shard, then the suffix.  A random suffix is FLAGS_key_size - |prefix|
\* characters of the alphabet, so the key is one longer than FLAGS_key_size.  A
\* sequential suffix is the count in decimal, zero-padded to
\* FLAGS_key_size - |prefix| digits, and longer when the count has more digits.
C20_KeyIsMarkerPrefixSuffix ==
  /\ \A key \in AllKeys : StartsWith(key, <<kClientRaw>> \o prefix)
  /\ (IsRandom /\ last_key # <<>>)
       => /\ Len(last_key) = key_size + 1
          /\ Range(Suffix(last_key)) \subseteq Alphabet
  /\ (~IsRandom /\ last_key # <<>>) => \E g \in generated : g.key = last_key
  /\ \A g \in generated :
       /\ IsSeqSuffix(Suffix(g.key))
       /\ DecimalValue(Suffix(g.key)) = g.count
  /\ \A j \in 1..Len(keys) : IsSeqSuffix(Suffix(keys[j]))

\* a sequential fill has built the key of count 1, padded to two digits
C20_Witness ==
  /\ benchmark = "fillseq"
  /\ RandomStrLen = 2
  /\ \E g \in generated : g.count = 1 /\ Suffix(g.key) = <<"0", "1">>

(***************************************************************************)
(* The transaction flags: properties                                        *)
(***************************************************************************)
\* the spellings of SI and of RC
SiSpellings == {<<a, b>> : a \in {"s", "S"}, b \in {"i", "I"}}
RcSpellings == {<<a, b>> : a \in {"r", "R"}, b \in {"c", "C"}}

\* the steps of the call so far that open a transaction
Opens == {k \in 1..Len(calls) : calls[k].fn = "NewTransaction"}

\* C21: the isolation-level flag accepts exactly the strings that are SI or RC
\* in some mix of upper and lower case and rejects every other string when the
\* command line is parsed, before any transaction is opened; a transaction is
\* opened with snapshot isolation for SI and with read-committed for RC.
C21_IsolationLevelValidated ==
  /\ flag_pc # "default" =>
       (flag_pc = "parsed" <=> isolation_arg \in SiSpellings \cup RcSpellings)
  /\ flag_pc # "parsed" => (op = "none" /\ calls = <<>> /\ opened = 0)
  /\ pc # "aborted"
  /\ \A k \in Opens :
       calls[k].arg[1].isolation =
         IF isolation_arg \in SiSpellings THEN "kSnapshotIsolation" ELSE "kReadCommitted"

\* the flag was given as "rc" and a transaction has been opened read-committed
C21_Witness ==
  /\ isolation_arg = <<"r", "c">>
  /\ flag_pc = "parsed"
  /\ Opens # {}
  /\ \A k \in Opens : calls[k].arg[1].isolation = "kReadCommitted" /\ calls[k].st = "OK"

(***************************************************************************)
(* Raw key-value store: properties                                          *)
(***************************************************************************)
\* the keys of a list of pairs, in order
KeysOf(list) == [i \in 1..Len(list) |-> list[i].key]

\* no key occurs twice in the list of pairs
DistinctKeys(list) == \A i, j \in 1..Len(list) : list[i].key = list[j].key => i = j

C24_SinglePathIffBatchSizeOne ==
  path.op # "none" =>
    /\ path.single <=> batch_size = 1
    /\ ~path.single <=> batch_size > 1

\* the number of chunks of at most size that n pairs make
CeilDiv(n, size) == (n + size - 1) \div size

\* C29: Arrange issues batch writes of at most ArrangeBatchSize pairs (256 in
\* the code), none after a failed one; a run in which every write succeeded
\* has made ceil(arrange_kv_num / ArrangeBatchSize) writes, which together
\* carry each generated key exactly once, in generation order.
C29_ArrangeWritesInBatches ==
  /\ \A k \in 1..Len(awrites) :
       /\ awrites[k].n \in 1..ArrangeBatchSize
       /\ awrites[k].st # "OK" => k = Len(awrites)
  /\ apc = "false" => (awrites # <<>> /\ awrites[Len(awrites)].st # "OK")
  /\ apc = "true" =>
       /\ Len(awrites) = CeilDiv(arrange_kv_num, ArrangeBatchSize)
       /\ \A k \in 1..Len(awrites) :
            (awrites[k].n = ArrangeBatchSize \/ k = Len(awrites))
       /\ awritten = keys
       /\ \A i, j \in 1..Len(awritten) : i # j => awritten[i] # awritten[j]

\* Arrange has returned true for a count that is not a multiple of the batch:
\* a full batch and the rest were written
C29_Witness ==
  /\ apc = "true"
  /\ arrange_kv_num = ArrangeBatchSize + 1
  /\ Len(awrites) = 2
  /\ awrites[1].n = ArrangeBatchSize
  /\ awrites[2].n = 1

\* C30 (refuted by the code): with a batch size above 1 and a key list that is
\* not empty, the batched non-transactional sequential read picks batch_size
\* keys per call, the j-th pick overall being keys[(j - 1) mod L] of the shard's
\* key list, and the process survives the picks.
C30_BatchedReadIndexesKeyList ==
  (benchmark = "readseq" /\ batch_size > 1 /\ Len(keys) >= 1) =>
    /\ ~shard_crashed
    /\ \A j \in 1..Len(reads) :
         reads[j] = Read(j - 1, keys[((j - 1) % Len(keys)) + 1])
    /\ (\A t \in Threads : rpc[t] = "idle") => Len(reads) % batch_size = 0

(***************************************************************************)
(* Multi-shard transactional writes: properties                             *)
(***************************************************************************)
\* a multi-shard write has handed its pairs to the driver function, which has
\* not returned yet
Delegated == m_pc = "delegated" /\ pc # "idle"

\* the steps of the call so far that write through the transaction
Writes == {k \in 1..Len(calls) : calls[k].fn \in {"Put", "BatchPut"}}

\* C23 (as stated): a multi-shard transactional write over S shard targets
\* generates one pair per shard, in shard-list order, advances each listed
\* shard's counter by one and hands the S pairs to the single-list function,
\* which writes them in one transaction.
C23_OnePairPerShard ==
  Delegated =>
    /\ Len(m_kvs) = Len(m_entries)
    /\ \A e \in 1..Len(m_kvs) : m_kvs[e] = MultiKv(m_entries[e], m_start[m_entries[e]])
    /\ \A s \in Shards :
         region_counter[s] = m_start[s] + (IF s \in Range(m_entries) THEN 1 ELSE 0)
    /\ op = m_fn
    /\ kvs = m_kvs
    /\ opened <= 1

\* the pairs per shard the amended claim states for the function running
PairsStated == IF m_fn = "KvTxnPut" THEN 1 ELSE batch_size

\* C23 (amended): KvTxnPut, taken when the batch size is 1, generates one pair
\* per shard and KvTxnBatchPut, taken otherwise, batch_size pairs per shard;
\* the pairs of one shard are consecutive, the shards come in shard-list order,
\* each listed shard's counter advances by the number of its pairs, no other
\* counter moves, and the whole list goes to the single-list function of the
\* same name, whose writes all go through the one transaction it opens.
C23_PairsPerShardByFunction ==
  Delegated =>
    /\ m_fn = (IF batch_size = 1 THEN "KvTxnPut" ELSE "KvTxnBatchPut")
    /\ Len(m_kvs) = PairsStated * Len(m_entries)
    /\ \A e \in 1..Len(m_entries) : \A j \in 0..(PairsStated - 1) :
         m_kvs[(e - 1) * PairsStated + j + 1] = MultiKv(m_entries[e], m_start[m_entries[e]] + j)
    /\ \A s \in Shards :
         region_counter[s] = m_start[s] + (IF s \in Range(m_entries) THEN PairsStated ELSE 0)
    /\ op = m_fn
    /\ kvs = m_kvs
    /\ opened <= 1
    /\ \A k \in Writes :
         /\ calls[k].handle = "live"
         /\ calls[k].arg = (IF m_fn = "KvTxnPut" THEN <<m_kvs[k - 1]>> ELSE m_kvs)

\* KvTxnBatchPut over two shard targets with a batch size of 2 has written its
\* four pairs in one BatchPut and committed
C23_Witness ==
  /\ Delegated
  /\ pc = "done"
  /\ batch_size = 2
  /\ m_entries = <<2, 1>>
  /\ Len(m_kvs) = 4
  /\ Len(calls) = 4
  /\ calls[2].fn = "BatchPut"
  /\ calls[2].arg = m_kvs
  /\ calls[4].fn = "Commit"
  /\ calls[4].st = "OK"

(***************************************************************************)
(* Transaction driver: no retry, the sequence of a successful call          *)
(***************************************************************************)
\* the positions of the steps of the call so far that called fn
StepsOf(fn) == {k \in 1..Len(calls) : calls[k].fn = fn}

\* C25: in one driver call, whatever the remote steps return, NewTransaction
\* is called once, the k-th read/write step submits the k-th element of the
\* input (the whole list in KvTxnBatchPut, once), so no element is submitted
\* twice, PreCommit and Commit are called at most once each, and Commit is the
\* last step issued.
C25_DriverNeverRetries ==
  /\ Cardinality(StepsOf("NewTransaction")) = (IF pc \in {"idle", "NewTransaction"} THEN 0 ELSE 1)
  /\ \A k \in StepsOf("NewTransaction") : k = 1
  /\ \A k \in 1..Len(calls) :
       calls[k].fn \in {"Put", "Get", "BatchGet"} =>
         (k - 1 <= Len(kvs) /\ calls[k].arg = <<kvs[k - 1]>>)
  /\ Cardinality(StepsOf("BatchPut")) <= 1
  /\ \A k \in StepsOf("BatchPut") : calls[k].arg = kvs
  /\ Cardinality(StepsOf("PreCommit")) <= 1
  /\ Cardinality(StepsOf("Commit")) <= 1
  /\ \A k \in StepsOf("Commit") : k = Len(calls)

\* a KvTxnPut of the same pair twice has returned after its Commit failed:
\* each of the two elements was put once and nothing was tried again
C25_Witness ==
  /\ pc = "done"
  /\ op = "KvTxnPut"
  /\ kvs = <<1, 1>>
  /\ Len(calls) = 5
  /\ calls[5].fn = "Commit"
  /\ calls[5].st # "OK"

\* the options the flags configure, read off the command line
ConfiguredOptions ==
  [kind |-> IF is_pessimistic_txn THEN "kPessimistic" ELSE "kOptimistic",
   isolation |-> IF isolation_arg \in SiSpellings THEN "kSnapshotIsolation" ELSE "kReadCommitted"]

\* the read/write steps of a call of f with input in, all successful
RwCalls(f, in) ==
  CASE f = "KvTxnPut" -> [i \in 1..Len(in) |-> Call("Put", <<in[i]>>, "OK", "live")]
    [] f = "KvTxnGet" -> [i \in 1..Len(in) |-> Call("Get", <<in[i]>>, "OK", "live")]
    [] f = "KvTxnBatchGet" -> [i \in 1..Len(in) |-> Call("BatchGet", <<in[i]>>, "OK", "live")]
    [] f = "KvTxnBatchPut" -> <<Call("BatchPut", in, "OK", "live")>>

\* C26: a driver call all of whose remote steps succeeded has issued exactly:
\* NewTransaction with the configured kind and isolation level, then one Put
\* per pair, one Get per key or one BatchGet per key group in input order, or
\* one BatchPut of the whole list, then PreCommit, then Commit, all on the
\* transaction opened; so also for the read functions and for an empty list.
C26_SuccessfulCallSequence ==
  (pc = "done" /\ \A k \in 1..Len(calls) : calls[k].st = "OK") =>
    calls = <<Call("NewTransaction", <<ConfiguredOptions>>, "OK", "nullptr")>>
            \o RwCalls(op, kvs)
            \o <<Call("PreCommit", <<>>, "OK", "live"), Call("Commit", <<>>, "OK", "live")>>

\* a KvTxnGet of an empty key list, pessimistic and read-committed, has
\* returned after its three steps succeeded
C26_Witness ==
  /\ pc = "done"
  /\ op = "KvTxnGet"
  /\ kvs = <<>>
  /\ is_pessimistic_txn
  /\ isolation_arg = <<"R", "C">>
  /\ Len(calls) = 3
  /\ \A k \in 1..3 : calls[k].st = "OK"
  /\ calls[3].fn = "Commit"

(***************************************************************************)
(* Vector index cache: the lock and concurrent misses                       *)
(***************************************************************************)
\* C27: rw_lock_ is never held across a remote call: a thread whose remote
\* lookup is in flight, or has returned and is not inserted yet, holds the lock
\* in no mode; the lock is held exclusively only by a thread in the middle of
\* its insert, so pending lookups never keep a reader from the fast path.
C27_NoLockAcrossLookup ==
  /\ \A t \in Threads : cpc[t] \in {"lookup", "insert"} => rw_writer # t
  /\ rw_writer # 0 => cpc[rw_writer] = "insert_index"
  /\ (\A t \in Threads : cpc[t] # "insert_index") => rw_writer = 0

\* one thread has a remote lookup by id in flight while an index is cached
\* under another id, which the other thread can read through the fast path
C27_Witness ==
  \E t, u \in Threads : \E i \in Ids :
    /\ t # u
    /\ cpc[t] = "lookup"
    /\ cfn[t] = "GetVectorIndexById"
    /\ carg[t] # i
    /\ cpc[u] = "idle"
    /\ FastPathHit("GetVectorIndexById", i)
    /\ ENABLED FastPath(u, "GetVectorIndexById", i)

\* C28: whenever no insert is under way, the lookup result inserted last is
\* in the cache whole: its name maps to its id and its id to its object,
\* whatever concurrent misses on the same name inserted before it.
C28_LastWriterWinsWhole ==
  (rw_writer = 0 /\ last_fill # NoIndex) =>
    /\ index_key_to_id_[last_fill.key] = last_fill.id
    /\ id_to_index_[last_fill.id] = last_fill

\* two threads missed on the same name, their lookups returned different ids
\* and both have inserted: the name maps to the id inserted last
C28_Witness ==
  /\ raced
  /\ rw_writer = 0
  /\ \A t \in Threads : cpc[t] = "idle"
  /\ \E i, j \in Ids :
       /\ i # j
       /\ last_fill = VectorIndex(i, last_fill.key)
       /\ index_key_to_id_[last_fill.key] = i
       /\ id_to_index_[i] = last_fill
       /\ id_to_index_[j] = VectorIndex(j, last_fill.key)
(***************************************************************************)
(* Arrange and the reads after it: properties                               *)
(***************************************************************************)
\* the reads that index the key list of the shard: the single-key reads and
\* the batched reads of TxnReadSeqOperation
IndexesKeyList == ReadSingle \/ IsTxn

\* C31 (refuted by the code): once Arrange has returned true the key list is
\* not empty, for every FLAGS_arrange_kv_num including 0, so no read that
\* indexes the key list takes a remainder by zero: none traps and none picks
\* from outside the list.
C31_ArrangedKeyListNonEmpty ==
  /\ apc = "true" => Len(keys) >= 1
  /\ (benchmark \in ReadSeqBenchmarks /\ IndexesKeyList) =>
       /\ ~shard_crashed
       /\ \A j \in 1..Len(reads) : reads[j].key # Garbage
(***************************************************************************)
(* CoordinatorInteraction: what changes the leader pointer                  *)
(***************************************************************************)
\* thread t is in a NextLeader whose argument is not the leader pointer
StaleNextLeader(t) == NextLeader(t) /\ observed[t] # leader_index_

\* C32: a NextLeader whose argument is not the leader pointer leaves the
\* pointer unchanged; a step that changes the pointer is a NextLeader whose
\* argument equals the pointer before the step; SetLeaderAddress leaves the
\* pointer unchanged.
C32_LeaderPointerChangedOnlyByMatchingNextLeader ==
  [][/\ \A t \in Threads : StaleNextLeader(t) => leader_index_' = leader_index_
     /\ leader_index_' # leader_index_
          => \E t \in Threads : NextLeader(t) /\ observed[t] = leader_index_
     /\ (\E addr \in Endpoints : SetLeaderAddress(addr))
          => leader_index_' = leader_index_]_vars

\* on three endpoints the latest NextLeader was called with 0 when the pointer
\* had been rotated on to 2, and left it at 2; the leader address has been set
\* as well
C32_Witness ==
  /\ Len(endpoints_) = 3
  /\ last_next = NextLeaderCall(0, 2, 2)
  /\ leader_index_ = 2
  /\ leader_addr_ # 0
(***************************************************************************)
(* Isolation level: the validator and the mapping                           *)
(***************************************************************************)
\* the values of sdk::TransactionIsolation that GetTxnIsolationLevel returns
IsolationLevels == {"kSnapshotIsolation", "kReadCommitted"}

\* C33: the value of the isolation-level flag is one the validator accepts,
\* and for every such value GetTxnIsolationLevel returns an isolation level:
\* no driver function reaches the fatal branch, and every transaction is
\* opened with an isolation level.
C33_ValidatorAndMappingAgree ==
  /\ IsolationValidator(txn_isolation_level)
  /\ GetTxnIsolationLevel \in IsolationLevels
  /\ op # "none" => pc # "aborted"
  /\ \A k \in Opens : calls[k].arg[1].isolation \in IsolationLevels

\* the flag was given in mixed case, accepted, and a driver function has
\* opened its transaction with the level the mapping returned for it
C33_Witness ==
  /\ flag_pc = "parsed"
  /\ txn_isolation_level = <<"s", "I">>
  /\ op # "none"
  /\ Opens # {}
  /\ \A k \in Opens : calls[k].arg[1].isolation = "kSnapshotIsolation"
====
